---------------------------- MODULE Spec2Model ----------------------------
(***************************************************************************)
(* Model of the grok policy library: finite lattices built from an edge    *)
(* map (lattice.go) and ALLOW/DENY/EXCEPT policies evaluated against       *)
(* annotations (policy.go).                                                *)
(*                                                                         *)
(* Strings are lattice elements and lattice names.  Go slices are TLA+     *)
(* sequences, Go maps are sequences of entries in the order the runtime    *)
(* iterates them.                                                          *)
(***************************************************************************)
EXTENDS Naturals, Integers, Sequences, FiniteSets, TLC

VARIABLES
    lattice,    \* the *Lattice receiver of the running algebra call
    op,         \* which method is running: "Meet", "Join", "Precede", "none"
    a, b,       \* its two arguments
    nodea,      \* local nodea of Meet/Join
    nodeb,      \* local nodeb of Meet/Join
    res,        \* local res of Meet/Join
    chb,        \* local chb of Precede
    iter,       \* number of frontier widenings done by the running call
    pc,         \* "idle", "loop", "done"
    ret,        \* the value returned by the call (NoResult before it returns)
    baseOn,     \* Policy.baseOn, the lattice registry, in iteration order
    policy,     \* the root Policy: [Mode, Clause, Excepts]
    an,         \* the Annotation handed to ApplyOn
    result,     \* what ApplyOn returned (NoResult before it returns)
    edgeMap,    \* the "edges" object handed to parse, in range order
    policyAttrs,      \* the pattrs handed to Allow, overlap or Deny
    annotationAttrs,  \* the aattrs handed to Allow, overlap or Deny
    tokens,     \* the tokens scanned from the text handed to a Parse method
    err,        \* the error a Parse method returned (Nil, a message, Panic)
    out,        \* the value returned by Allow, overlap, Deny or ParseClause
    refs,       \* the baseOn field of every node of the policy tree
    lastOk,     \* the tokens of the last ParsePolicy call that returned nil
    state,      \* Lattice.state of the receiver, the lattice Product attached
    th          \* the locals of the goroutines evaluating concurrently

vars == <<lattice, op, a, b, nodea, nodeb, res, chb, iter, pc, ret,
          baseOn, policy, an, result, edgeMap, policyAttrs, annotationAttrs,
          tokens, err, out, refs, lastOk, state, th>>

algebraVars == <<lattice, op, a, b, nodea, nodeb, res, chb, iter, pc, ret>>
policyVars  == <<baseOn, policy, an, result>>
callVars    == <<edgeMap, policyAttrs, annotationAttrs, tokens, err, out>>
extVars     == <<refs, lastOk, state, th>>

---------------------------------------------------------------------------
(* Bounds of the model.                                                    *)

\* Largest number of from-nodes (keys) of a generated edge map.
MaxKeys == 3
\* Largest number of to-nodes listed for one from-node.
MaxTos == 2
\* Largest number of frontier widenings a Meet/Join/Precede call is followed.
MaxWiden == 10
\* Largest number of pairs of an annotation.
MaxAnn == 2
\* Largest number of clause pairs of a policy, root and children together.
MaxPairs == 2
\* Largest number of Excepts children of a policy.
MaxExcepts == 1

---------------------------------------------------------------------------
(* lattice.go: constants and helpers                                       *)

Top    == "TOP"
Bottom == "BOTTOM"

\* Marks "the call has not returned a value".
NoResult == "<none>"

\* Every string of the model, in the order of Go's strings.Compare.
StrOrder == <<"AccountID", "BOTTOM", "Birthday", "Encrypted", "Hashed",
              "IPAddress", "Location", "Redacted", "Sharing", "TOP",
              "Truncated", "UniqueID">>

StrRank(s) == CHOOSE i \in 1..Len(StrOrder) : StrOrder[i] = s

\* strings.Compare(s, t) == -1
StrLess(s, t) == StrRank(s) < StrRank(t)

Range(seq) == {seq[i] : i \in 1..Len(seq)}

\* contains(arr, str)
contains(arr, str) == \E i \in 1..Len(arr) : arr[i] = str

\* Insert one string into an ascending sequence, keeping it ascending.
RECURSIVE InsertSorted(_, _)
InsertSorted(seq, s) ==
    IF seq = <<>> THEN <<s>>
    ELSE IF StrLess(s, Head(seq)) THEN <<s>> \o seq
    ELSE <<Head(seq)>> \o InsertSorted(Tail(seq), s)

\* sort.Slice(ch, func(p, q) bool { return strings.Compare(ch[p], ch[q]) == -1 })
RECURSIVE SortStrings(_)
SortStrings(seq) ==
    IF seq = <<>> THEN <<>>
    ELSE InsertSorted(SortStrings(Tail(seq)), Head(seq))

Edge(from, to) == [From |-> from, To |-> to]

---------------------------------------------------------------------------
(* lattice.go: parse, the construction of a lattice from an edge map.      *)
(* An edge map is a sequence of entries [from, tos], one per key of the    *)
(* JSON object, in the order the map is ranged over.                       *)

\* First loop of parse: one edge per (from, to) pair, singletons skipped.
RECURSIVE ListedEdges(_)
ListedEdges(em) ==
    IF em = <<>> THEN <<>>
    ELSE LET e == Head(em)
         IN  [i \in 1..Len(e.tos) |-> Edge(e.from, e.tos[i])]
             \o ListedEdges(Tail(em))

\* ses of parse: the from-nodes mapped to an empty list.
RECURSIVE Singletons(_)
Singletons(em) ==
    IF em = <<>> THEN <<>>
    ELSE (IF Len(Head(em).tos) = 0 THEN <<Head(em).from>> ELSE <<>>)
         \o Singletons(Tail(em))

\* froms / tos of parse: the distinct From (To) of the edges, first seen first.
RECURSIVE DistinctOf(_, _, _)
DistinctOf(edges, field, seen) ==
    IF edges = <<>> THEN seen
    ELSE LET x == IF field = "From" THEN Head(edges).From ELSE Head(edges).To
         IN  DistinctOf(Tail(edges), field,
                        IF contains(seen, x) THEN seen ELSE Append(seen, x))

\* TopEdges giving every from-node an edge from TOP.
TopEdgesEveryFrom(froms, tos) == [i \in 1..Len(froms) |-> Edge(Top, froms[i])]

\* for _, f := range froms { if !contains(tos, f) { append Edge{Top, f} } }
RECURSIVE TopEdges(_, _)
TopEdges(froms, tos) ==
    IF froms = <<>> THEN <<>>
    ELSE (IF contains(tos, Head(froms)) THEN <<>> ELSE <<Edge(Top, Head(froms))>>)
         \o TopEdges(Tail(froms), tos)

\* for _, t := range tos { if !contains(froms, t) { append Edge{t, Bottom} } }
RECURSIVE BottomEdges(_, _)
BottomEdges(tos, froms) ==
    IF tos = <<>> THEN <<>>
    ELSE (IF contains(froms, Head(tos)) THEN <<>> ELSE <<Edge(Head(tos), Bottom)>>)
         \o BottomEdges(Tail(tos), froms)

\* for _, se := range ses { append Edge{Top, se}, Edge{se, Bottom} }
RECURSIVE SingletonEdges(_)
SingletonEdges(ses) ==
    IF ses = <<>> THEN <<>>
    ELSE <<Edge(Top, Head(ses)), Edge(Head(ses), Bottom)>>
         \o SingletonEdges(Tail(ses))

parse(name, em) ==
    LET edges == ListedEdges(em)
        froms == DistinctOf(edges, "From", <<>>)
        tos   == DistinctOf(edges, "To", <<>>)
    IN  [Name  |-> name,
         Edges |-> edges \o TopEdges(froms, tos) \o BottomEdges(tos, froms)
                   \o SingletonEdges(Singletons(em))]

---------------------------------------------------------------------------
(* lattice.go: traversal                                                   *)

\* The loop of childrenOf before the sort: distinct To of the edges whose
\* From is in nodes, in edge order.
RECURSIVE ChildrenScan(_, _, _)
ChildrenScan(edges, nodes, ch) ==
    IF edges = <<>> THEN ch
    ELSE LET e == Head(edges)
         IN  ChildrenScan(Tail(edges), nodes,
                 IF contains(nodes, e.From) /\ ~contains(ch, e.To)
                 THEN Append(ch, e.To) ELSE ch)

childrenOf(l, nodes) == SortStrings(ChildrenScan(l.Edges, nodes, <<>>))

RECURSIVE ParentsScan(_, _, _)
ParentsScan(edges, nodes, pa) ==
    IF edges = <<>> THEN pa
    ELSE LET e == Head(edges)
         IN  ParentsScan(Tail(edges), nodes,
                 IF contains(nodes, e.To) /\ ~contains(pa, e.From)
                 THEN Append(pa, e.From) ELSE pa)

parentsOf(l, nodes) == SortStrings(ParentsScan(l.Edges, nodes, <<>>))

\* The inner loop of Meet and Join: the entries of nodea that nodeb contains.
Intersect(na, nb) == SelectSeq(na, LAMBDA e : contains(nb, e))


---------------------------------------------------------------------------
(* lattice.go: Meet, Join, Precede as functions.  The loops are followed   *)
(* for at most MaxWiden widenings; NoResult stands for a call that has not *)
(* returned by then.                                                       *)

\* MeetLoop widening its frontiers upward, by parentsOf, as Join does.
RECURSIVE MeetLoopUp(_, _, _, _)
MeetLoopUp(l, na, nb, fuel) ==
    LET r == Intersect(na, nb)
    IN  IF Len(r) = 1 THEN r[1]
        ELSE IF fuel = 0 THEN NoResult
        ELSE MeetLoopUp(l, nb, na \o parentsOf(l, na), fuel - 1)

RECURSIVE MeetLoop(_, _, _, _)
MeetLoop(l, na, nb, fuel) ==
    LET r == Intersect(na, nb)
    IN  IF Len(r) = 1 THEN r[1]
        ELSE IF fuel = 0 THEN NoResult
        ELSE MeetLoop(l, nb, na \o childrenOf(l, na), fuel - 1)

Meet(l, x, y) ==
    IF x = NoResult \/ y = NoResult THEN NoResult
    ELSE MeetLoop(l, <<x>>, <<y>>, MaxWiden)

RECURSIVE JoinLoop(_, _, _, _)
JoinLoop(l, na, nb, fuel) ==
    LET r == Intersect(na, nb)
    IN  IF Len(r) = 1 THEN r[1]
        ELSE IF fuel = 0 THEN NoResult
        ELSE JoinLoop(l, nb, na \o parentsOf(l, na), fuel - 1)

Join(l, x, y) ==
    IF x = NoResult \/ y = NoResult THEN NoResult
    ELSE JoinLoop(l, <<x>>, <<y>>, MaxWiden)

RECURSIVE PrecedeLoop(_, _, _, _)
PrecedeLoop(l, x, frontier, fuel) ==
    IF Len(frontier) = 1 /\ frontier[1] = Bottom THEN FALSE
    ELSE IF contains(frontier, x) THEN TRUE
    ELSE IF fuel = 0 THEN FALSE
    ELSE PrecedeLoop(l, x, childrenOf(l, frontier), fuel - 1)

Precede(l, x, y) == PrecedeLoop(l, x, <<y>>, MaxWiden)

---------------------------------------------------------------------------
(* The order a lattice describes: x is below y iff x = y or x is reachable *)
(* from y along edges.                                                     *)

Elements(l) == {l.Edges[i].From : i \in 1..Len(l.Edges)}
               \cup {l.Edges[i].To : i \in 1..Len(l.Edges)}

RECURSIVE ReachDown(_, _, _)
ReachDown(l, S, n) ==
    IF n = 0 THEN S
    ELSE ReachDown(l, S \cup {e.To : e \in {f \in Range(l.Edges) : f.From \in S}},
                   n - 1)

\* Down(l)[y] is the set of elements below y.
Down(l) == [y \in Elements(l) |-> ReachDown(l, {y}, Cardinality(Elements(l)))]

Below(l, x, y) == x \in Down(l)[y]

\* The greatest lower bounds of x and y (a set: empty or one element when
\* the order is antisymmetric).
Glbs(l, x, y) ==
    LET d == Down(l)
        lows == d[x] \cap d[y]
    IN  {g \in lows : \A z \in lows : z \in d[g]}

\* The least upper bounds of x and y.
Lubs(l, x, y) ==
    LET d == Down(l)
        ups == {u \in Elements(l) : x \in d[u] /\ y \in d[u]}
    IN  {g \in ups : \A u \in ups : g \in d[u]}

\* The edges are a covering relation of a lattice order: no cycle, no edge
\* twice, no edge that a longer path already implies, and every two
\* elements have exactly one greatest lower and one least upper bound.
DescribesLattice(l) ==
    LET d == Down(l)
        E == l.Edges
    IN  /\ \A i \in 1..Len(E) : E[i].From \notin d[E[i].To]
        /\ \A i, j \in 1..Len(E) : E[i] = E[j] => i = j
        /\ \A i \in 1..Len(E) :
              ~\E z \in d[E[i].From] \ {E[i].From, E[i].To} : E[i].To \in d[z]
        /\ \A x, y \in Elements(l) :
              /\ Cardinality(Glbs(l, x, y)) = 1
              /\ Cardinality(Lubs(l, x, y)) = 1

---------------------------------------------------------------------------
(* The edge maps the lattice algebra is exercised on.                      *)

ElemNames == {"AccountID", "IPAddress", "Location", "UniqueID"}

\* The elements of a set of strings as an ascending sequence.
RECURSIVE SortedSeq(_)
SortedSeq(S) ==
    IF S = {} THEN <<>>
    ELSE LET m == CHOOSE x \in S : \A y \in S : ~StrLess(y, x)
         IN  <<m>> \o SortedSeq(S \ {m})

\* The JSON object {k: f[k], ...} ranged over in ascending key order.
MapEntries(f) ==
    LET keys == SortedSeq(DOMAIN f)
    IN  [i \in 1..Len(keys) |-> [from |-> keys[i], tos |-> SortedSeq(f[keys[i]])]]

EdgeMaps ==
    UNION { { MapEntries(f) :
                f \in {g \in [K -> SUBSET ElemNames] :
                          \A k \in K : k \notin g[k] /\ Cardinality(g[k]) <= MaxTos} } :
            K \in {J \in SUBSET ElemNames : J # {} /\ Cardinality(J) <= MaxKeys} }

\* The lattices built by construction from an edge map that describes a
\* finite lattice.
Lattices == {l \in {parse("DataType", em) : em \in EdgeMaps} : DescribesLattice(l)}

\* {"UniqueID": ["AccountID", "IPAddress"], "Location": ["IPAddress"]}
DataTypeMap == <<[from |-> "Location", tos |-> <<"IPAddress">>],
                 [from |-> "UniqueID", tos |-> <<"AccountID", "IPAddress">>]>>

\* {"Sharing": []}
PurposeMap == <<[from |-> "Sharing", tos |-> <<>>]>>

DataType == parse("DataType", DataTypeMap)
Purpose  == parse("Purpose", PurposeMap)

---------------------------------------------------------------------------
(* The lattice algebra as a state machine: one call of Meet, Join or       *)
(* Precede on a constructed lattice, one loop iteration per step.          *)

NoPolicy == [Mode |-> FALSE, Clause |-> <<>>, Excepts |-> <<>>]

\* No construction, attribute check or Parse method has been called.
NoCall ==
    /\ edgeMap = <<>> /\ policyAttrs = <<>> /\ annotationAttrs = <<>>
    /\ tokens = <<>> /\ err = NoResult /\ out = NoResult

\* Lattice.state before Product: no lattice.
NilState == [Name |-> "", Edges |-> <<>>]

\* No policy tree is followed node by node, no lattice is attached by
\* Product and no goroutine is running.
NoExt ==
    /\ refs = NoResult /\ lastOk = NoResult /\ state = NilState /\ th = <<>>

InitAlgebra ==
    /\ lattice \in Lattices
    /\ op = "none" /\ a = NoResult /\ b = NoResult
    /\ nodea = <<>> /\ nodeb = <<>> /\ res = <<>> /\ chb = <<>>
    /\ iter = 0 /\ pc = "idle" /\ ret = NoResult
    /\ baseOn = <<>> /\ policy = NoPolicy /\ an = <<>> /\ result = NoResult
    /\ NoCall
    /\ NoExt

\* nodea := []string{a}; nodeb := []string{b}; res := make([]string, 0)
MeetCall ==
    /\ pc = "idle"
    /\ \E x, y \in Elements(lattice) :
          /\ op' = "Meet" /\ a' = x /\ b' = y
          /\ nodea' = <<x>> /\ nodeb' = <<y>>
    /\ res' = <<>> /\ iter' = 0 /\ pc' = "loop"
    /\ UNCHANGED <<lattice, chb, ret>>
    /\ UNCHANGED policyVars
    /\ UNCHANGED callVars
    /\ UNCHANGED extVars

\* MeetIter widening the frontiers before it intersects them.
MeetIterWidenFirst ==
    /\ pc = "loop" /\ op = "Meet"
    /\ LET na == nodeb
           nb == nodea \o childrenOf(lattice, nodea)
           r  == Intersect(na, nb)
       IN  /\ iter < MaxWiden
           /\ nodea' = na /\ nodeb' = nb /\ res' = r
           /\ iter' = iter + 1
           /\ IF Len(r) = 1
              THEN pc' = "done" /\ ret' = r[1]
              ELSE UNCHANGED <<pc, ret>>
    /\ UNCHANGED <<lattice, op, a, b, chb>>
    /\ UNCHANGED policyVars
    /\ UNCHANGED callVars
    /\ UNCHANGED extVars

\* One iteration of the for loop of Meet.
MeetIter ==
    /\ pc = "loop" /\ op = "Meet"
    /\ LET r == Intersect(nodea, nodeb)
       IN  /\ res' = r
           /\ IF Len(r) = 1
              THEN /\ pc' = "done" /\ ret' = r[1]
                   /\ UNCHANGED <<nodea, nodeb, iter>>
              ELSE /\ iter < MaxWiden
                   /\ nodea' = nodeb
                   /\ nodeb' = nodea \o childrenOf(lattice, nodea)
                   /\ iter' = iter + 1
                   /\ UNCHANGED <<pc, ret>>
    /\ UNCHANGED <<lattice, op, a, b, chb>>
    /\ UNCHANGED policyVars
    /\ UNCHANGED callVars
    /\ UNCHANGED extVars

JoinCall ==
    /\ pc = "idle"
    /\ \E x, y \in Elements(lattice) :
          /\ op' = "Join" /\ a' = x /\ b' = y
          /\ nodea' = <<x>> /\ nodeb' = <<y>>
    /\ res' = <<>> /\ iter' = 0 /\ pc' = "loop"
    /\ UNCHANGED <<lattice, chb, ret>>
    /\ UNCHANGED policyVars
    /\ UNCHANGED callVars
    /\ UNCHANGED extVars

\* One iteration of the for loop of Join.
JoinIter ==
    /\ pc = "loop" /\ op = "Join"
    /\ LET r == Intersect(nodea, nodeb)
       IN  /\ res' = r
           /\ IF Len(r) = 1
              THEN /\ pc' = "done" /\ ret' = r[1]
                   /\ UNCHANGED <<nodea, nodeb, iter>>
              ELSE /\ iter < MaxWiden
                   /\ nodea' = nodeb
                   /\ nodeb' = nodea \o parentsOf(lattice, nodea)
                   /\ iter' = iter + 1
                   /\ UNCHANGED <<pc, ret>>
    /\ UNCHANGED <<lattice, op, a, b, chb>>
    /\ UNCHANGED policyVars
    /\ UNCHANGED callVars
    /\ UNCHANGED extVars

\* chb := []string{b}
PrecedeCall ==
    /\ pc = "idle"
    /\ \E x, y \in Elements(lattice) :
          /\ op' = "Precede" /\ a' = x /\ b' = y
          /\ chb' = <<y>>
    /\ iter' = 0 /\ pc' = "loop"
    /\ UNCHANGED <<lattice, nodea, nodeb, res, ret>>
    /\ UNCHANGED policyVars
    /\ UNCHANGED callVars
    /\ UNCHANGED extVars

\* One iteration of the for loop of Precede; ret is "true" or "false".
PrecedeIter ==
    /\ pc = "loop" /\ op = "Precede"
    /\ IF Len(chb) = 1 /\ chb[1] = Bottom
       THEN pc' = "done" /\ ret' = "false" /\ UNCHANGED <<chb, iter>>
       ELSE IF contains(chb, a)
       THEN pc' = "done" /\ ret' = "true" /\ UNCHANGED <<chb, iter>>
       ELSE /\ iter < MaxWiden
            /\ chb' = childrenOf(lattice, chb)
            /\ iter' = iter + 1
            /\ UNCHANGED <<pc, ret>>
    /\ UNCHANGED <<lattice, op, a, b, nodea, nodeb, res>>
    /\ UNCHANGED policyVars
    /\ UNCHANGED callVars
    /\ UNCHANGED extVars

NextAlgebra ==
    \/ MeetCall \/ MeetIter
    \/ JoinCall \/ JoinIter
    \/ PrecedeCall \/ PrecedeIter

SpecAlgebra == InitAlgebra /\ [][NextAlgebra]_vars


---------------------------------------------------------------------------
(* lattice.go: Allow, overlap, Deny                                        *)

\* AllowedBy taking an empty list of policy attributes for no restriction.
AllowedByVacuous(l, pattrs, aattr) ==
    \/ pattrs = <<>>
    \/ \E k \in 1..Len(pattrs) : Precede(l, aattr, pattrs[k])

\* The inner loop of Allow: some policy attribute is preceded by aattr.
RECURSIVE AllowedBy(_, _, _)
AllowedBy(l, pattrs, aattr) ==
    IF pattrs = <<>> THEN FALSE
    ELSE IF Precede(l, aattr, Head(pattrs)) THEN TRUE
    ELSE AllowedBy(l, Tail(pattrs), aattr)

RECURSIVE Allow(_, _, _)
Allow(l, pattrs, aattrs) ==
    IF aattrs = <<>> THEN TRUE
    ELSE IF ~AllowedBy(l, pattrs, Head(aattrs)) THEN FALSE
    ELSE Allow(l, pattrs, Tail(aattrs))

\* OverlapFold keeping only the Meet with the last annotation attribute.
OverlapFoldLastOnly(l, pattr, aattrs, i, r) == Meet(l, pattr, aattrs[Len(aattrs)])

\* The inner loop of overlap: r after the annotation attributes from
\* index i on have been folded in.
RECURSIVE OverlapFold(_, _, _, _, _)
OverlapFold(l, pattr, aattrs, i, r) ==
    IF i > Len(aattrs) THEN r
    ELSE OverlapFold(l, pattr, aattrs, i + 1,
                     IF i = 1 THEN Meet(l, pattr, aattrs[i])
                     ELSE Join(l, r, Meet(l, pattr, aattrs[i])))

overlap(l, pattrs, aattrs) ==
    IF Len(aattrs) = 0 THEN <<>>
    ELSE [k \in 1..Len(pattrs) |-> OverlapFold(l, pattrs[k], aattrs, 1, "")]

\* Deny asking for an overlap to be there.
DenyNonEmpty(l, pattrs, aattrs) ==
    LET overlaps == overlap(l, pattrs, aattrs)
    IN  /\ Len(overlaps) > 0
        /\ ~\E k \in 1..Len(overlaps) : overlaps[k] = Bottom

Deny(l, pattrs, aattrs) ==
    LET overlaps == overlap(l, pattrs, aattrs)
    IN  ~\E k \in 1..Len(overlaps) : overlaps[k] = Bottom

---------------------------------------------------------------------------
(* policy.go: clauses, annotations and ApplyOn.  A policy node is          *)
(* [Mode, Clause, Excepts]; Mode is TRUE for ALLOW and FALSE for DENY.  A  *)
(* registry is the sequence of the lattices of baseOn in range order, each *)
(* under the key l.Name.                                                   *)

ALLOW == TRUE
DENY  == FALSE

Pair(name, value) == [name |-> name, value |-> value]

RECURSIVE ValuesOf(_, _)
ValuesOf(c, attr) ==
    IF c = <<>> THEN <<>>
    ELSE (IF attr = Head(c).name THEN <<Head(c).value>> ELSE <<>>)
         \o ValuesOf(Tail(c), attr)

\* AllowLoop leaving the loop after the first lattice of the registry.
AllowLoopFirstOnly(reg, i, clause, ann) ==
    \/ Len(reg) = 0
    \/ Allow(reg[1], ValuesOf(clause, reg[1].Name), ValuesOf(ann, reg[1].Name))

\* First loop of the ALLOW branch: TRUE iff it does not return false.
RECURSIVE AllowLoop(_, _, _, _)
AllowLoop(reg, i, clause, ann) ==
    IF i > Len(reg) THEN TRUE
    ELSE IF ~Allow(reg[i], ValuesOf(clause, reg[i].Name), ValuesOf(ann, reg[i].Name))
         THEN FALSE
    ELSE AllowLoop(reg, i + 1, clause, ann)

\* First loop of the DENY branch: TRUE iff it returns true.
RECURSIVE DenyLoop(_, _, _, _)
DenyLoop(reg, i, clause, ann) ==
    IF i > Len(reg) THEN FALSE
    ELSE IF ~Deny(reg[i], ValuesOf(clause, reg[i].Name), ValuesOf(ann, reg[i].Name))
         THEN TRUE
    ELSE DenyLoop(reg, i + 1, clause, ann)

\* OverlapLoop handing the children the annotation of the parent, as the
\* ALLOW branch does.
OverlapLoopRaw(reg, i, clause, ann) == ann

\* OverlapLoop leaving the loop after the first lattice of the range.
OverlapLoopFirstOnly(reg, i, clause, ann) ==
    IF i > Len(reg) THEN <<>>
    ELSE LET vs == overlap(reg[i], ValuesOf(ann, reg[i].Name),
                           ValuesOf(clause, reg[i].Name))
         IN  [k \in 1..Len(vs) |-> Pair(reg[i].Name, vs[k])]

\* Second loop of the DENY branch: the derived annotation.
RECURSIVE OverlapLoop(_, _, _, _)
OverlapLoop(reg, i, clause, ann) ==
    IF i > Len(reg) THEN <<>>
    ELSE LET vs == overlap(reg[i], ValuesOf(ann, reg[i].Name),
                           ValuesOf(clause, reg[i].Name))
         IN  [k \in 1..Len(vs) |-> Pair(reg[i].Name, vs[k])]
             \o OverlapLoop(reg, i + 1, clause, ann)

\* The annotation the loop over Excepts hands to every child: an itself in
\* the ALLOW branch, the derived overlap in the DENY branch.
PassedToExcepts(reg, p, ann) ==
    IF p.Mode THEN ann ELSE OverlapLoop(reg, 1, p.Clause, ann)

RECURSIVE ApplyOn(_, _, _)
RECURSIVE AllowExcepts(_, _, _, _)
RECURSIVE DenyExcepts(_, _, _, _)

\* Loop over Excepts of the ALLOW branch: FALSE at the first child that
\* returns false.
AllowExcepts(reg, excepts, i, ann) ==
    IF i > Len(excepts) THEN TRUE
    ELSE IF ~ApplyOn(reg, excepts[i], ann) THEN FALSE
    ELSE AllowExcepts(reg, excepts, i + 1, ann)

\* Loop over Excepts of the DENY branch: TRUE at the first child that
\* returns true.
DenyExcepts(reg, excepts, i, ov) ==
    IF i > Len(excepts) THEN FALSE
    ELSE IF ApplyOn(reg, excepts[i], ov) THEN TRUE
    ELSE DenyExcepts(reg, excepts, i + 1, ov)

ApplyOn(reg, p, ann) ==
    IF p.Mode
    THEN IF ~AllowLoop(reg, 1, p.Clause, ann) THEN FALSE
         ELSE AllowExcepts(reg, p.Excepts, 1, PassedToExcepts(reg, p, ann))
    ELSE IF DenyLoop(reg, 1, p.Clause, ann) THEN TRUE
         ELSE DenyExcepts(reg, p.Excepts, 1, PassedToExcepts(reg, p, ann))


---------------------------------------------------------------------------
(* The policies and annotations ApplyOn is exercised on: the registry of   *)
(* the policy tests (DataType and Purpose), every element of both lattices *)
(* as a clause or annotation value.                                        *)

\* The two orders in which a range over baseOn can visit the registry.
Registries == {<<DataType, Purpose>>, <<Purpose, DataType>>}

AllPairs == {Pair(DataType.Name, v) : v \in Elements(DataType)}
            \cup {Pair(Purpose.Name, v) : v \in Elements(Purpose)}

SeqsUpTo(S, n) == UNION {[1..k -> S] : k \in 0..n}

Annotations == SeqsUpTo(AllPairs, MaxAnn)

\* Policies without Excepts.
Leaves(mode, n) == [Mode : {mode}, Clause : SeqsUpTo(AllPairs, n), Excepts : {<<>>}]

\* Policies of the given mode with at most MaxExcepts children of the
\* opposite mode; root and children share MaxPairs clause pairs.
Policies(mode) ==
    UNION { [Mode : {mode},
             Clause : SeqsUpTo(AllPairs, n),
             Excepts : SeqsUpTo(Leaves(~mode, MaxPairs - n), MaxExcepts)] :
            n \in 0..(MaxPairs - 1) }
    \cup Leaves(mode, MaxPairs - 1)

InitApply ==
    /\ baseOn \in Registries
    /\ policy \in Policies(ALLOW) \cup Policies(DENY)
    /\ an \in Annotations
    /\ result = FALSE /\ pc = "idle"
    /\ lattice = DataType
    /\ op = "none" /\ a = NoResult /\ b = NoResult
    /\ nodea = <<>> /\ nodeb = <<>> /\ res = <<>> /\ chb = <<>>
    /\ iter = 0 /\ ret = NoResult
    /\ NoCall
    /\ NoExt

\* policy.ApplyOn(an)
ApplyOnCall ==
    /\ pc = "idle"
    /\ result' = ApplyOn(baseOn, policy, an)
    /\ pc' = "done"
    /\ UNCHANGED <<baseOn, policy, an>>
    /\ UNCHANGED <<lattice, op, a, b, nodea, nodeb, res, chb, iter, ret>>
    /\ UNCHANGED callVars
    /\ UNCHANGED extVars

NextApply == ApplyOnCall

SpecApply == InitApply /\ [][NextApply]_vars


\* ALLOW DataType TOP EXCEPT { DENY DataType IPAddress DataType AccountID }
ExamplePolicy ==
    [Mode |-> ALLOW,
     Clause |-> <<Pair("DataType", "TOP")>>,
     Excepts |-> << [Mode |-> DENY,
                     Clause |-> <<Pair("DataType", "IPAddress"),
                                  Pair("DataType", "AccountID")>>,
                     Excepts |-> <<>>] >>]

\* The annotations over DataType elements.
DataTypeAnnotations ==
    SeqsUpTo({Pair(DataType.Name, v) : v \in Elements(DataType)}, MaxAnn + 1)

InitExample ==
    /\ baseOn \in Registries
    /\ policy = ExamplePolicy
    /\ an \in DataTypeAnnotations
    /\ result = FALSE /\ pc = "idle"
    /\ lattice = DataType
    /\ op = "none" /\ a = NoResult /\ b = NoResult
    /\ nodea = <<>> /\ nodeb = <<>> /\ res = <<>> /\ chb = <<>>
    /\ iter = 0 /\ ret = NoResult
    /\ NoCall
    /\ NoExt

SpecExample == InitExample /\ [][NextApply]_vars


---------------------------------------------------------------------------
(* Properties of ApplyOn                                                   *)

\* The lattices of the policy registry are ones on which every Meet and
\* Join returns, so every ApplyOn of SpecApply and SpecExample returns.
RegistryAlgebraReturns ==
    \A i \in 1..Len(baseOn) : \A x, y \in Elements(baseOn[i]) :
        /\ Meet(baseOn[i], x, y) # NoResult
        /\ Join(baseOn[i], x, y) # NoResult

\* The join of a non-empty sequence of elements, left to right.
RECURSIVE JoinOver(_, _)
JoinOver(l, xs) ==
    IF Len(xs) = 1 THEN xs[1]
    ELSE Join(l, JoinOver(l, SubSeq(xs, 1, Len(xs) - 1)), xs[Len(xs)])

\* The derived annotation of a DENY node: lattice by lattice, one pair per
\* annotation value x of the lattice, holding the join over the clause's
\* values p of meet(x, p); a lattice the clause has no value for
\* contributes no pair.
RECURSIVE DerivedAnnotation(_, _, _)
DerivedAnnotation(reg, clause, ann) ==
    IF reg = <<>> THEN <<>>
    ELSE LET l  == Head(reg)
             ps == ValuesOf(clause, l.Name)
             xs == ValuesOf(ann, l.Name)
         IN  (IF ps = <<>> THEN <<>>
              ELSE [k \in 1..Len(xs) |->
                       Pair(l.Name,
                            JoinOver(l, [j \in 1..Len(ps) |-> Meet(l, xs[k], ps[j])]))])
             \o DerivedAnnotation(Tail(reg), clause, ann)

\* C1: ApplyOn on an ALLOW node returns true iff every lattice of the
\* registry allows the annotation's values under the clause's values and
\* every Excepts child returns true on the same annotation; otherwise it
\* returns false.
C1_AllowNode ==
    (pc = "done" /\ policy.Mode = ALLOW) =>
        (result <=>
            /\ \A i \in 1..Len(baseOn) :
                  Allow(baseOn[i], ValuesOf(policy.Clause, baseOn[i].Name),
                        ValuesOf(an, baseOn[i].Name))
            /\ \A k \in 1..Len(policy.Excepts) :
                  ApplyOn(baseOn, policy.Excepts[k], an))

\* An ALLOW node with a child has returned true on an annotation with a
\* value, and another lattice of the registry is named by the child.
C1_Witness ==
    /\ pc = "done" /\ policy.Mode = ALLOW /\ result
    /\ Len(policy.Excepts) = 1 /\ Len(policy.Excepts[1].Clause) = 1
    /\ Len(policy.Clause) = 1 /\ Len(an) = 1

\* C2: ApplyOn on a DENY node returns true iff some single lattice of the
\* registry does not deny the annotation's values under the clause's
\* values, or some Excepts child returns true on the derived annotation;
\* otherwise it returns false.
C2_DenyNode ==
    (pc = "done" /\ policy.Mode = DENY) =>
        (result <=>
            \/ \E i \in 1..Len(baseOn) :
                  ~Deny(baseOn[i], ValuesOf(policy.Clause, baseOn[i].Name),
                        ValuesOf(an, baseOn[i].Name))
            \/ \E k \in 1..Len(policy.Excepts) :
                  ApplyOn(baseOn, policy.Excepts[k],
                          DerivedAnnotation(baseOn, policy.Clause, an)))

\* A DENY node that no lattice lets escape has returned true because its
\* child allows the derived annotation, which differs from the annotation.
C2_Witness ==
    /\ pc = "done" /\ policy.Mode = DENY /\ result
    /\ Len(policy.Excepts) = 1
    /\ \A i \in 1..Len(baseOn) :
          Deny(baseOn[i], ValuesOf(policy.Clause, baseOn[i].Name),
               ValuesOf(an, baseOn[i].Name))
    /\ an # <<>>
    /\ DerivedAnnotation(baseOn, policy.Clause, an) # an
    /\ DerivedAnnotation(baseOn, policy.Clause, an) # <<>>

\* C3: the example policy returns false on the annotations over DataType
\* that contain both IPAddress and AccountID and true on all others.
C3_ExampleDeniesOnlyBoth ==
    (pc = "done" /\ policy = ExamplePolicy) =>
        (result <=> ~(/\ contains(ValuesOf(an, "DataType"), "IPAddress")
                      /\ contains(ValuesOf(an, "DataType"), "AccountID")))

---------------------------------------------------------------------------
(* Properties of the lattice algebra                                       *)

\* The distinct elements the two frontiers of the running call share.
Common == Range(Intersect(nodea, nodeb))

\* Both frontiers only grow, so the elements they share are never lost:
\* once two different elements are shared, every later intersection has
\* at least two entries and the loop of Meet or Join cannot exit.
CommonOnlyGrows ==
    [][(pc = "loop" /\ op \in {"Meet", "Join"}) =>
         Common \subseteq Range(Intersect(nodea', nodeb'))]_vars

\* C4: Meet(a, b) is the greatest lower bound of a and b.
C4_MeetIsGlb ==
    (pc = "done" /\ op = "Meet") => ret \in Glbs(lattice, a, b)

\* C5: Join(a, b) is the least upper bound of a and b.
C5_JoinIsLub ==
    (pc = "done" /\ op = "Join") => ret \in Lubs(lattice, a, b)

\* C6: the loops of Meet, Join and Precede terminate: no call is ever in
\* its loop with two or more different common elements, the state from
\* which it keeps widening for ever (CommonOnlyGrows).
C6_LoopsTerminate ==
    (pc = "loop" /\ op \in {"Meet", "Join"}) => Cardinality(Common) < 2

\* C7: Precede(a, b) is true iff a is b or a descendant of b.
C7_PrecedeIsOrder ==
    (pc = "done" /\ op = "Precede") =>
        ((ret = "true") <=> Below(lattice, a, b))

\* C8: Meet(a, TOP) = a, Join(a, TOP) = TOP, Meet(a, BOTTOM) = BOTTOM and
\* Join(a, BOTTOM) = a, with the operands in either order.
C8_TopBottomIdentities ==
    /\ (pc = "done" /\ op = "Meet") =>
          /\ b = Top => ret = a
          /\ a = Top => ret = b
          /\ (a = Bottom \/ b = Bottom) => ret = Bottom
    /\ (pc = "done" /\ op = "Join") =>
          /\ (a = Top \/ b = Top) => ret = Top
          /\ b = Bottom => ret = a
          /\ a = Bottom => ret = b

\* C9: Meet and Join are commutative: the call with the operands swapped
\* returns the same element.
C9_Commutative ==
    /\ (pc = "done" /\ op = "Meet") => Meet(lattice, b, a) = ret
    /\ (pc = "done" /\ op = "Join") => Join(lattice, b, a) = ret

\* C10: Meet(a, a) = a and Join(a, a) = a, returned on the first
\* intersection without any widening of a frontier.
C10_Idempotent ==
    (op \in {"Meet", "Join"} /\ a = b) =>
        /\ iter = 0
        /\ res \in {<<>>, <<a>>}
        /\ pc = "done" => ret = a

\* Meet(a, a) has returned for an element other than TOP and BOTTOM.
C10_Witness ==
    /\ pc = "done" /\ op = "Meet" /\ a = b /\ a \notin {Top, Bottom}
    /\ ret = a /\ iter = 0

---------------------------------------------------------------------------
(* Allow, overlap and Deny called on their own: one call on a lattice,     *)
(* with the two attribute lists drawn from the lattice's elements.         *)

\* Largest number of entries of pattrs and of aattrs.
MaxAttrs == 2

\* {"AccountID": ["IPAddress"], "IPAddress": ["Location"], "UniqueID": []}
ChainMap == <<[from |-> "AccountID", tos |-> <<"IPAddress">>],
              [from |-> "IPAddress", tos |-> <<"Location">>],
              [from |-> "UniqueID", tos |-> <<>>]>>

AttrLattices == {DataType, Purpose, parse("DataType", ChainMap)}

InitAttrs ==
    /\ lattice \in AttrLattices
    /\ policyAttrs \in SeqsUpTo(Elements(lattice), MaxAttrs)
    /\ annotationAttrs \in SeqsUpTo(Elements(lattice), MaxAttrs)
    /\ op = "none" /\ a = NoResult /\ b = NoResult
    /\ nodea = <<>> /\ nodeb = <<>> /\ res = <<>> /\ chb = <<>>
    /\ iter = 0 /\ pc = "idle" /\ ret = NoResult
    /\ baseOn = <<>> /\ policy = NoPolicy /\ an = <<>> /\ result = NoResult
    /\ edgeMap = <<>> /\ tokens = <<>> /\ err = NoResult /\ out = NoResult
    /\ NoExt

\* l.Allow(pattrs, aattrs)
AllowCall ==
    /\ pc = "idle"
    /\ op' = "Allow"
    /\ out' = Allow(lattice, policyAttrs, annotationAttrs)
    /\ pc' = "done"
    /\ UNCHANGED <<lattice, a, b, nodea, nodeb, res, chb, iter, ret>>
    /\ UNCHANGED policyVars
    /\ UNCHANGED <<edgeMap, policyAttrs, annotationAttrs, tokens, err>>
    /\ UNCHANGED extVars

\* l.overlap(pattrs, aattrs); the call stays in its loop when a Meet or a
\* Join it makes does not return.
overlapCall ==
    /\ pc = "idle"
    /\ op' = "overlap"
    /\ LET r == overlap(lattice, policyAttrs, annotationAttrs)
       IN  IF contains(r, NoResult)
           THEN pc' = "loop" /\ UNCHANGED out
           ELSE pc' = "done" /\ out' = r
    /\ UNCHANGED <<lattice, a, b, nodea, nodeb, res, chb, iter, ret>>
    /\ UNCHANGED policyVars
    /\ UNCHANGED <<edgeMap, policyAttrs, annotationAttrs, tokens, err>>
    /\ UNCHANGED extVars

\* l.Deny(pattrs, aattrs)
DenyCall ==
    /\ pc = "idle"
    /\ op' = "Deny"
    /\ IF contains(overlap(lattice, policyAttrs, annotationAttrs), NoResult)
       THEN pc' = "loop" /\ UNCHANGED out
       ELSE pc' = "done" /\ out' = Deny(lattice, policyAttrs, annotationAttrs)
    /\ UNCHANGED <<lattice, a, b, nodea, nodeb, res, chb, iter, ret>>
    /\ UNCHANGED policyVars
    /\ UNCHANGED <<edgeMap, policyAttrs, annotationAttrs, tokens, err>>
    /\ UNCHANGED extVars

NextAttrs == AllowCall \/ overlapCall \/ DenyCall

SpecAttrs == InitAttrs /\ [][NextAttrs]_vars

---------------------------------------------------------------------------
(* Properties of Allow, overlap and Deny                                   *)

\* C11: Allow(pattrs, aattrs) is true iff every annotation value is equal
\* to or a descendant of at least one policy value (so it is true for an
\* annotation value BOTTOM whenever there is a policy value).
C11_AllowIsBelowSome ==
    (pc = "done" /\ op = "Allow") =>
        (out <=> \A i \in 1..Len(annotationAttrs) :
                    \E k \in 1..Len(policyAttrs) :
                        Below(lattice, annotationAttrs[i], policyAttrs[k]))

\* The entry of overlap for the policy attribute p: the join, left to
\* right, of Meet(p, x) over the annotation attributes x.
OverlapEntry(l, p, xs) == JoinOver(l, [j \in 1..Len(xs) |-> Meet(l, p, xs[j])])

\* The greatest lower (least upper) bound of two elements of a lattice.
Glb(l, x, y) == CHOOSE g \in Glbs(l, x, y) : TRUE
Lub(l, x, y) == CHOOSE g \in Lubs(l, x, y) : TRUE

\* The least upper bound of the greatest lower bounds of p with every
\* annotation attribute.
RECURSIVE LubOfGlbs(_, _, _)
LubOfGlbs(l, p, xs) ==
    IF Len(xs) = 1 THEN Glb(l, p, xs[1])
    ELSE Lub(l, LubOfGlbs(l, p, SubSeq(xs, 1, Len(xs) - 1)),
             Glb(l, p, xs[Len(xs)]))

\* C12: overlap returns the empty sequence for no annotation attributes
\* and otherwise one entry per policy attribute p, in order, the join over
\* the annotation attributes x of Meet(p, x) -- on the lattices of the
\* registry this is the least upper bound of the greatest lower bounds --
\* and Deny is true iff none of these entries is BOTTOM.
C12_OverlapAndDeny ==
    LET ps == policyAttrs
        xs == annotationAttrs
    IN  /\ (pc = "done" /\ op = "overlap") =>
              /\ xs = <<>> => out = <<>>
              /\ xs # <<>> =>
                    /\ out = [k \in 1..Len(ps) |-> OverlapEntry(lattice, ps[k], xs)]
                    /\ lattice \in {DataType, Purpose} =>
                          out = [k \in 1..Len(ps) |-> LubOfGlbs(lattice, ps[k], xs)]
        /\ (pc = "done" /\ op = "Deny") =>
              (out <=> \/ xs = <<>>
                       \/ \A k \in 1..Len(ps) :
                             OverlapEntry(lattice, ps[k], xs) # Bottom)

\* overlap has returned two entries that differ, folded over two
\* annotation attributes, one of them BOTTOM.
C12_Witness ==
    /\ pc = "done" /\ op = "overlap"
    /\ Len(policyAttrs) = 2 /\ Len(annotationAttrs) = 2
    /\ out[1] # out[2] /\ out[2] = Bottom
    /\ out[1] \notin {Top, Bottom}

---------------------------------------------------------------------------
(* Construction as a step: NewLattice on an "edges" object whose keys are  *)
(* ranged over in any order and may name TOP and BOTTOM themselves.        *)

\* Largest number of keys of an "edges" object handed to NewLattice.
MaxMapKeys == 2

InputNames == ElemNames \cup {Top, Bottom}

\* The orders in which a range can visit the entries of a map.
Orders(entries) ==
    LET n == Len(entries)
    IN  {[i \in 1..n |-> entries[p[i]]] :
            p \in {q \in [1..n -> 1..n] : \A i, j \in 1..n : q[i] = q[j] => i = j}}

\* The lists of to-nodes a key can be mapped to, as sets.
TosChoices == {S \in SUBSET InputNames : Cardinality(S) <= MaxTos}

\* The key sets of the "edges" objects handed to NewLattice.
InputKeySets == {J \in SUBSET InputNames : J # {} /\ Cardinality(J) <= MaxMapKeys}

\* The "edges" objects with key set K, in every order a range can visit them.
InputMaps(K) ==
    UNION { Orders(MapEntries(f)) :
                f \in {g \in [K -> TosChoices] : \A k \in K : k \notin g[k]} }

NoLattice == [Name |-> "", Edges |-> <<>>]

InitConstruct ==
    /\ \E K \in InputKeySets : edgeMap \in InputMaps(K)
    /\ lattice = NoLattice
    /\ op = "none" /\ a = NoResult /\ b = NoResult
    /\ nodea = <<>> /\ nodeb = <<>> /\ res = <<>> /\ chb = <<>>
    /\ iter = 0 /\ pc = "idle" /\ ret = NoResult
    /\ baseOn = <<>> /\ policy = NoPolicy /\ an = <<>> /\ result = NoResult
    /\ policyAttrs = <<>> /\ annotationAttrs = <<>>
    /\ tokens = <<>> /\ err = NoResult /\ out = NoResult
    /\ NoExt

\* lattice := parse(result)
NewLattice ==
    /\ pc = "idle"
    /\ op' = "NewLattice"
    /\ lattice' = parse("DataType", edgeMap)
    /\ pc' = "done"
    /\ UNCHANGED <<a, b, nodea, nodeb, res, chb, iter, ret>>
    /\ UNCHANGED policyVars
    /\ UNCHANGED callVars
    /\ UNCHANGED extVars

NextConstruct == NewLattice

SpecConstruct == InitConstruct /\ [][NextConstruct]_vars

---------------------------------------------------------------------------
(* Properties of construction                                              *)

\* The (from, to) pairs an "edges" object lists.
ListedPairs(em) ==
    UNION {{<<em[i].from, em[i].tos[j]>> : j \in 1..Len(em[i].tos)} : i \in 1..Len(em)}

FromNodes(em) == {pr[1] : pr \in ListedPairs(em)}
ToNodes(em)   == {pr[2] : pr \in ListedPairs(em)}
EmptyNodes(em) == {em[i].from : i \in {j \in 1..Len(em) : em[j].tos = <<>>}}

\* The edges construction is to yield.
ExpectedEdges(em) ==
    {Edge(pr[1], pr[2]) : pr \in ListedPairs(em)}
    \cup {Edge(Top, f) : f \in FromNodes(em) \ ToNodes(em)}
    \cup {Edge(t, Bottom) : t \in ToNodes(em) \ FromNodes(em)}
    \cup {Edge(Top, e) : e \in EmptyNodes(em)}
    \cup {Edge(e, Bottom) : e \in EmptyNodes(em)}

\* C13: construction yields exactly the listed edges, TOP->f for every
\* from-node of a pair that is never a to-node, t->BOTTOM for every to-node
\* that is never a from-node of a pair, and TOP->e, e->BOTTOM for every
\* from-node mapped to an empty list; one edge for each of these, and no
\* other edge.
C13_ConstructedEdges ==
    (pc = "done" /\ op = "NewLattice") =>
        /\ Range(lattice.Edges) = ExpectedEdges(edgeMap)
        /\ Len(lattice.Edges) =
              Cardinality(ListedPairs(edgeMap))
              + Cardinality(FromNodes(edgeMap) \ ToNodes(edgeMap))
              + Cardinality(ToNodes(edgeMap) \ FromNodes(edgeMap))
              + 2 * Cardinality(EmptyNodes(edgeMap))

\* The lattice of the tests has been constructed, with its 7 edges.
C13_Witness ==
    /\ pc = "done" /\ op = "NewLattice"
    /\ edgeMap = DataTypeMap
    /\ Len(lattice.Edges) = 7
    /\ Edge(Top, "Location") \in Range(lattice.Edges)
    /\ Edge("AccountID", Bottom) \in Range(lattice.Edges)

\* The listed pairs of an "edges" object have no cycle.
AcyclicMap(em) ==
    LET l == [Name |-> "", Edges |-> ListedEdges(em)]
    IN  \A i \in 1..Len(l.Edges) : l.Edges[i].From \notin Down(l)[l.Edges[i].To]

\* C14: for an acyclic input, the constructed lattice is a DAG with a
\* unique top and bottom: TOP is the only element without an incoming
\* edge, BOTTOM the only one without an outgoing edge, every element is
\* below TOP and above BOTTOM, and no edge closes a cycle or is a self-loop.
C14_UniqueTopBottomDag ==
    (pc = "done" /\ op = "NewLattice" /\ AcyclicMap(edgeMap)) =>
        LET E == Range(lattice.Edges)
            d == Down(lattice)
        IN  /\ {x \in Elements(lattice) : ~\E e \in E : e.To = x} = {Top}
            /\ {x \in Elements(lattice) : ~\E e \in E : e.From = x} = {Bottom}
            /\ \A x \in Elements(lattice) : x \in d[Top] /\ Bottom \in d[x]
            /\ \A e \in E : e.From # e.To /\ e.From \notin d[e.To]

---------------------------------------------------------------------------
(* policy.go: the parser.  A text is the sequence of the tokens the        *)
(* scanner cuts it into; ts[i] of the code is At(ts, i) and ts[lo:hi] is   *)
(* Slice(ts, lo, hi).  A Parse method returns Nil, one of the error        *)
(* messages, or ends in the run-time panic of an index out of range.       *)

AllowToken == "ALLOW"
DenyToken  == "DENY"
Except     == "EXCEPT"
lefBrace   == "{"
rightBrace == "}"

Nil      == "nil"
Panic    == "panic: runtime error: index out of range"
ErrStart == "policy: don't start with ALLOW or DENY"
ErrBrace == "policy: except clause isn't warpped by { and }"
ErrMode  == "policy: except clause doesn't have the opposite mode"
ErrOdd   == "policy: clause is not composed of name-value pairs"
\* The two messages below without the offending token they are formatted with.
ErrName  == "policy: not a valid lattice name"
ErrValue == "policy: not a valid value in lattice"

At(ts, i) == ts[i + 1]
Slice(ts, lo, hi) == SubSeq(ts, lo + 1, hi)

\* p.LatticeName(s)
LatticeName(reg, s) ==
    IF \E i \in 1..Len(reg) : s = reg[i].Name
    THEN [val |-> s, err |-> Nil]
    ELSE [val |-> "", err |-> ErrName]

\* LatticeValue taking every token for a value of the lattice.
LatticeValueAny(reg, s, name) == [val |-> s, err |-> Nil]

\* p.LatticeValue(s, name); name is the name of a lattice of the registry.
LatticeValue(reg, s, name) ==
    LET l == CHOOSE m \in Range(reg) : m.Name = name
    IN  IF \E i \in 1..Len(l.Edges) : s = l.Edges[i].From \/ s = l.Edges[i].To
        THEN [val |-> s, err |-> Nil]
        ELSE [val |-> "", err |-> ErrValue]

\* The loop of parseClauseTokens from token i (counted from 1) on; a nil
\* Clause is NoResult.
RECURSIVE ClauseLoop(_, _, _, _, _)
ClauseLoop(reg, ts, i, currLa, clause) ==
    IF i > Len(ts) THEN [clause |-> clause, err |-> Nil]
    ELSE IF currLa = ""
    THEN LET la == LatticeName(reg, ts[i])
         IN  IF la.err # Nil THEN [clause |-> NoResult, err |-> la.err]
             ELSE ClauseLoop(reg, ts, i + 1, la.val, clause)
    ELSE LET lv == LatticeValue(reg, ts[i], currLa)
         IN  IF lv.err # Nil THEN [clause |-> NoResult, err |-> lv.err]
             ELSE ClauseLoop(reg, ts, i + 1, "", Append(clause, Pair(currLa, lv.val)))

parseClauseTokens(reg, ts) == ClauseLoop(reg, ts, 1, "", <<>>)

\* p.ParseClause(str), on the tokens of str
ParseClause(reg, ts) ==
    IF Len(ts) % 2 # 0 THEN [clause |-> NoResult, err |-> ErrOdd]
    ELSE parseClauseTokens(reg, ts)

\* p.ParseAnnotation(str), on the tokens of str
ParseAnnotation(reg, ts) == ParseClause(reg, ts)

\* for i < n && Except != ts[i] { i++ }
RECURSIVE ClauseEnd(_, _)
ClauseEnd(ts, i) ==
    IF i < Len(ts) /\ Except # At(ts, i) THEN ClauseEnd(ts, i + 1) ELSE i

\* The mode keyword the except clauses of a policy must start with, handed
\* the mode of the policy itself.
SameMode(mode) == IF mode THEN AllowToken ELSE DenyToken

\* if policy.Mode { mode = Deny } else { mode = Allow }
OppositeMode(mode) == IF mode THEN DenyToken ELSE AllowToken

RECURSIVE parsePolicyTokens(_, _)
RECURSIVE ExceptsLoop(_, _, _, _, _, _, _)

\* The loop `for i < n-1` of parsePolicyTokens.
ExceptsLoop(reg, ts, mode, pi, i, depth, excepts) ==
    LET n == Len(ts)
    IN  IF ~(i < n - 1) THEN [excepts |-> excepts, err |-> Nil]
        ELSE LET d == depth + (IF At(ts, i) = lefBrace THEN 1 ELSE 0)
                            - (IF At(ts, i) = rightBrace THEN 1 ELSE 0)
             IN  IF (d = 0 /\ mode = At(ts, i)) \/ i = n - 2
                 THEN LET j  == IF i = n - 2 THEN i + 1 ELSE i
                          po == parsePolicyTokens(reg, Slice(ts, pi, j))
                      IN  IF po.err # Nil
                          THEN [excepts |-> excepts, err |-> po.err]
                          ELSE ExceptsLoop(reg, ts, mode, j, j + 1, d,
                                           Append(excepts, po.policy))
                 ELSE ExceptsLoop(reg, ts, mode, pi, i + 1, d, excepts)

\* p.parsePolicyTokens(ts): the returned Policy and error.
parsePolicyTokens(reg, ts) ==
    LET n == Len(ts)
    IN  IF n = 0 THEN [policy |-> NoPolicy, err |-> Panic]
        ELSE IF ~(AllowToken = At(ts, 0) \/ DenyToken = At(ts, 0))
        THEN [policy |-> NoPolicy, err |-> ErrStart]
        ELSE
        LET m  == (AllowToken = At(ts, 0))
            i  == ClauseEnd(ts, 1)
            c  == parseClauseTokens(reg, Slice(ts, 1, i))
            p0 == [Mode |-> m, Clause |-> <<>>, Excepts |-> <<>>]
            p1 == [Mode |-> m, Clause |-> c.clause, Excepts |-> <<>>]
        IN  IF c.err # Nil THEN [policy |-> p0, err |-> c.err]
            ELSE IF ~(i < n) THEN [policy |-> p1, err |-> Nil]
            ELSE IF i + 1 > n - 1 THEN [policy |-> p1, err |-> Panic]
            ELSE IF At(ts, i + 1) # lefBrace \/ At(ts, n - 1) # rightBrace
            THEN [policy |-> p1, err |-> ErrBrace]
            ELSE IF i + 2 > n - 1 THEN [policy |-> p1, err |-> Panic]
            ELSE IF At(ts, i + 2) # OppositeMode(m)
            THEN [policy |-> p1, err |-> ErrMode]
            ELSE LET ex == ExceptsLoop(reg, ts, OppositeMode(m), i + 2, i + 3, 0, <<>>)
                 IN  IF ex.err # Nil THEN [policy |-> p1, err |-> ex.err]
                     ELSE [policy |-> [Mode |-> m, Clause |-> c.clause,
                                       Excepts |-> ex.excepts],
                           err |-> Nil]

---------------------------------------------------------------------------
(* The texts the Parse methods are exercised on: every short sequence of   *)
(* tokens, the texts of small policy trees (of alternating modes or not),  *)
(* and those texts with one token left out.                                *)

\* Largest length of the token sequences taken exhaustively.
MaxTokens == 4
\* Largest number of nodes of a policy tree whose text is parsed.
MaxNodes == 3

TokenAlphabet == {AllowToken, DenyToken, Except, lefBrace, rightBrace,
                  "DataType", "Purpose", "IPAddress", "Sharing"}

TreeClauses == {<<>>, <<Pair("DataType", "IPAddress")>>}

RECURSIVE TreesOf(_)
RECURSIVE ForestsOf(_)

\* The policy trees of exactly n nodes.
TreesOf(n) ==
    IF n < 1 THEN {}
    ELSE [Mode : BOOLEAN, Clause : TreeClauses, Excepts : ForestsOf(n - 1)]

\* The sequences of policy trees of n nodes together.
ForestsOf(n) ==
    IF n = 0 THEN {<<>>}
    ELSE UNION { {<<t>> \o f : t \in TreesOf(k), f \in ForestsOf(n - k)} :
                 k \in 1..n }

PolicyTrees == UNION {TreesOf(n) : n \in 1..MaxNodes}

\* The name-value tokens of a clause.
RECURSIVE ClauseText(_)
ClauseText(c) ==
    IF c = <<>> THEN <<>>
    ELSE <<Head(c).name, Head(c).value>> \o ClauseText(Tail(c))

\* The text of a policy tree by the grammar
\* Policy := (ALLOW|DENY) Clause (EXCEPT { Policy+ })?
RECURSIVE Unparse(_)
RECURSIVE UnparseAll(_)
Unparse(t) ==
    <<IF t.Mode THEN AllowToken ELSE DenyToken>> \o ClauseText(t.Clause)
    \o (IF t.Excepts = <<>> THEN <<>>
        ELSE <<Except, lefBrace>> \o UnparseAll(t.Excepts) \o <<rightBrace>>)

UnparseAll(ts) ==
    IF ts = <<>> THEN <<>> ELSE Unparse(Head(ts)) \o UnparseAll(Tail(ts))

\* Every Excepts child has the mode opposite to its parent's, at every depth.
RECURSIVE Alternating(_)
Alternating(t) ==
    \A k \in 1..Len(t.Excepts) :
        t.Excepts[k].Mode = ~t.Mode /\ Alternating(t.Excepts[k])

DropAt(ts, i) == SubSeq(ts, 1, i - 1) \o SubSeq(ts, i + 1, Len(ts))

TokenSeqs ==
    SeqsUpTo(TokenAlphabet, MaxTokens)
    \cup {Unparse(t) : t \in PolicyTrees}
    \cup UNION { {DropAt(Unparse(t), i) : i \in 1..Len(Unparse(t))} :
                 t \in PolicyTrees }

\* The map NewPolicy makes and stores in policy.baseOn; the baseOn of a
\* Policy{} literal is nil.
RegistryRef == "baseOn"
NilRef == "nil"

\* policy.baseOn = make(map[string]*Lattice), on a policy without children
NewPolicyRefs == [baseOn |-> RegistryRef, Excepts |-> <<>>]

\* BaseOnOf leaving the baseOn of the policies parsePolicyTokens returns nil.
RECURSIVE BaseOnOfUnset(_, _)
BaseOnOfUnset(ref, p) ==
    [baseOn |-> NilRef,
     Excepts |-> [i \in 1..Len(p.Excepts) |-> BaseOnOfUnset(ref, p.Excepts[i])]]

\* The baseOn fields of the tree a successful parsePolicyTokens of the
\* receiver with baseOn ref returns: policy.baseOn = p.baseOn in every
\* invocation, the receiver being the root in each.
RECURSIVE BaseOnOf(_, _)
BaseOnOf(ref, p) ==
    [baseOn |-> ref,
     Excepts |-> [i \in 1..Len(p.Excepts) |-> BaseOnOf(ref, p.Excepts[i])]]

\* Assign appending the parsed pairs and children to those of the receiver.
AssignAppend(p, pp) ==
    [Mode |-> pp.Mode, Clause |-> p.Clause \o pp.Clause,
     Excepts |-> p.Excepts \o pp.Excepts]

\* p.Mode = pp.Mode; p.Clause = pp.Clause; p.Excepts = pp.Excepts
Assign(p, pp) ==
    [Mode |-> pp.Mode, Clause |-> pp.Clause, Excepts |-> pp.Excepts]

\* The same assignment seen on the baseOn fields: the receiver keeps its
\* own, the children bring theirs.
AssignRefs(r, rr) == [baseOn |-> r.baseOn, Excepts |-> rr.Excepts]

\* The receiver is a policy from NewPolicy, or one that has parsed the
\* policy text of the tests before.
InitParse ==
    /\ baseOn \in Registries
    /\ policy \in {NoPolicy, ExamplePolicy}
    /\ tokens \in TokenSeqs
    /\ err = NoResult /\ out = NoResult
    /\ an = <<>> /\ result = FALSE /\ pc = "idle"
    /\ lattice = DataType
    /\ op = "none" /\ a = NoResult /\ b = NoResult
    /\ nodea = <<>> /\ nodeb = <<>> /\ res = <<>> /\ chb = <<>>
    /\ iter = 0 /\ ret = NoResult
    /\ edgeMap = <<>> /\ policyAttrs = <<>> /\ annotationAttrs = <<>>
    /\ refs = AssignRefs(NewPolicyRefs, BaseOnOf(RegistryRef, policy))
    /\ lastOk = (IF policy = NoPolicy THEN NoResult ELSE Unparse(policy))
    /\ state = NilState /\ th = <<>>

\* ParsePolicyCall assigning the fields of the receiver before the error
\* of parsePolicyTokens is looked at.
ParsePolicyCallPartial ==
    /\ pc = "idle"
    /\ op' = "ParsePolicy"
    /\ LET pp == parsePolicyTokens(baseOn, tokens)
       IN  /\ err' = pp.err
           /\ policy' = Assign(policy, pp.policy)
           /\ refs' = AssignRefs(refs, BaseOnOf(refs.baseOn, pp.policy))
           /\ lastOk' = (IF pp.err # Nil THEN lastOk ELSE tokens)
    /\ pc' = "done"
    /\ UNCHANGED <<baseOn, an, result>>
    /\ UNCHANGED <<lattice, a, b, nodea, nodeb, res, chb, iter, ret>>
    /\ UNCHANGED <<edgeMap, policyAttrs, annotationAttrs, tokens, out>>
    /\ UNCHANGED <<state, th>>

\* p.ParsePolicy(pstr)
ParsePolicyCall ==
    /\ pc = "idle"
    /\ op' = "ParsePolicy"
    /\ LET pp == parsePolicyTokens(baseOn, tokens)
       IN  /\ err' = pp.err
           /\ IF pp.err # Nil
              THEN UNCHANGED <<policy, refs, lastOk>>
              ELSE /\ policy' = Assign(policy, pp.policy)
                   /\ refs' = AssignRefs(refs, BaseOnOf(refs.baseOn, pp.policy))
                   /\ lastOk' = tokens
    /\ pc' = "done"
    /\ UNCHANGED <<baseOn, an, result>>
    /\ UNCHANGED <<lattice, a, b, nodea, nodeb, res, chb, iter, ret>>
    /\ UNCHANGED <<edgeMap, policyAttrs, annotationAttrs, tokens, out>>
    /\ UNCHANGED <<state, th>>

\* p.ParseClause(str)
ParseClauseCall ==
    /\ pc = "idle"
    /\ op' = "ParseClause"
    /\ LET r == ParseClause(baseOn, tokens)
       IN  err' = r.err /\ out' = r.clause
    /\ pc' = "done"
    /\ UNCHANGED policyVars
    /\ UNCHANGED <<lattice, a, b, nodea, nodeb, res, chb, iter, ret>>
    /\ UNCHANGED <<edgeMap, policyAttrs, annotationAttrs, tokens>>
    /\ UNCHANGED extVars

\* p.ParseAnnotation(str)
ParseAnnotationCall ==
    /\ pc = "idle"
    /\ op' = "ParseAnnotation"
    /\ LET r == ParseAnnotation(baseOn, tokens)
       IN  err' = r.err /\ out' = r.clause
    /\ pc' = "done"
    /\ UNCHANGED policyVars
    /\ UNCHANGED <<lattice, a, b, nodea, nodeb, res, chb, iter, ret>>
    /\ UNCHANGED <<edgeMap, policyAttrs, annotationAttrs, tokens>>
    /\ UNCHANGED extVars

NextParse == ParsePolicyCall \/ ParseClauseCall \/ ParseAnnotationCall

SpecParse == InitParse /\ [][NextParse]_vars

---------------------------------------------------------------------------
(* Properties of the parser                                                *)

\* C15: for every text of the grammar (mode keyword, clause of name-value
\* pairs, possibly empty, optional EXCEPT block of one or more policies of
\* the opposite mode) ParsePolicy returns no error and leaves in the
\* receiver the tree the text spells: same Mode, same Clause pairs in
\* order, one child per policy of the block in order, to the same depth.
C15_ParseBuildsTree ==
    (pc = "done" /\ op = "ParsePolicy") =>
        \A t \in PolicyTrees :
            (Alternating(t) /\ tokens = Unparse(t)) => (err = Nil /\ policy = t)

\* The texts of the trees in which some child has the mode of its parent.
SameModeTexts == {Unparse(t) : t \in {u \in PolicyTrees : ~Alternating(u)}}

\* C16: every tree ParsePolicy produces has, at every depth, children of
\* the mode opposite to their parent's, and every text in which a policy
\* of an EXCEPT block has the mode of the enclosing policy is rejected
\* with an error.
C16_ModeAlternation ==
    (pc = "done" /\ op = "ParsePolicy") =>
        /\ err = Nil => Alternating(policy)
        /\ tokens \in SameModeTexts => err \notin {Nil, Panic}

\* ParsePolicy has accepted a text with two sibling exceptions of the
\* mode opposite to the root's.
C16_Witness ==
    /\ pc = "done" /\ op = "ParsePolicy"
    /\ err = Nil /\ Len(policy.Excepts) = 2
    /\ policy.Excepts[1].Mode = ~policy.Mode
    /\ policy.Excepts[2].Mode = ~policy.Mode
    /\ policy.Excepts[2].Clause # <<>>

\* The position (from 0) of the first EXCEPT of a text, Len(ts) if none.
RECURSIVE FirstExcept(_, _)
FirstExcept(ts, i) ==
    IF i >= Len(ts) THEN Len(ts)
    ELSE IF At(ts, i) = Except THEN i ELSE FirstExcept(ts, i + 1)

\* The text does not match the grammar in one of these ways: it is empty,
\* does not start with ALLOW or DENY, has EXCEPT as its last token or with
\* fewer than two tokens after it, has an EXCEPT not followed by "{", or
\* does not end with the "}" that closes the block.
Malformed(ts) ==
    LET n == Len(ts)
        i == FirstExcept(ts, 0)
    IN  \/ n = 0
        \/ At(ts, 0) \notin {AllowToken, DenyToken}
        \/ /\ i < n
           /\ \/ n - 1 - i < 2
              \/ At(ts, i + 1) # lefBrace
              \/ At(ts, n - 1) # rightBrace

\* C17: on every such malformed text ParsePolicy returns an error: it does
\* not crash on an out-of-range token and does not return a tree.
C17_MalformedIsError ==
    (pc = "done" /\ op = "ParsePolicy" /\ Malformed(tokens)) =>
        err \notin {Nil, Panic}

\* The number of tokens between the leading keyword and the first EXCEPT
\* (or the end) of a text that starts with ALLOW or DENY.
RootClauseLen(ts) == FirstExcept(ts, 0) - 1

\* C18: a clause of an odd number of tokens is an error both for
\* ParseClause / ParseAnnotation and for the clause of a policy handed to
\* ParsePolicy.
C18_OddClauseIsError ==
    /\ (pc = "done" /\ op \in {"ParseClause", "ParseAnnotation"}
            /\ Len(tokens) % 2 = 1) =>
          (err \notin {Nil, Panic} /\ out = NoResult)
    /\ (pc = "done" /\ op = "ParsePolicy" /\ Len(tokens) > 0
            /\ tokens[1] \in {AllowToken, DenyToken}
            /\ RootClauseLen(tokens) % 2 = 1) =>
          err \notin {Nil, Panic}

\* The pair names a lattice of the registry and one of its elements.
ValidPair(reg, pr) ==
    \E i \in 1..Len(reg) : pr.name = reg[i].Name /\ pr.value \in Elements(reg[i])

RECURSIVE TreePairsValid(_, _)
TreePairsValid(reg, t) ==
    /\ \A k \in 1..Len(t.Clause) : ValidPair(reg, t.Clause[k])
    /\ \A k \in 1..Len(t.Excepts) : TreePairsValid(reg, t.Excepts[k])

\* The first token of an even-length clause text that is not valid where
\* it stands: 0 if there is none.
FirstBad(reg, ts) ==
    LET bad == {k \in 1..Len(ts) :
                  IF k % 2 = 1
                  THEN ~\E i \in 1..Len(reg) : ts[k] = reg[i].Name
                  ELSE ~ValidPair(reg, Pair(ts[k - 1], ts[k]))}
    IN  IF bad = {} THEN 0 ELSE CHOOSE k \in bad : \A j \in bad : k <= j

\* C19: a clause of name-value tokens parses iff every name is a
\* registered lattice and every value an element of that lattice, to the
\* pairs in order; the first bad token gives an error and no clause, one
\* error for a name and another for a value; and every pair of a parsed
\* policy tree is (registered lattice, element of it).
C19_ClauseValidation ==
    /\ (pc = "done" /\ op \in {"ParseClause", "ParseAnnotation"}
            /\ Len(tokens) % 2 = 0) =>
          LET k == FirstBad(baseOn, tokens)
          IN  /\ k = 0 =>
                    /\ err = Nil
                    /\ out = [j \in 1..(Len(tokens) \div 2) |->
                                 Pair(tokens[2 * j - 1], tokens[2 * j])]
              /\ (k # 0 /\ k % 2 = 1) => (err = ErrName /\ out = NoResult)
              /\ (k # 0 /\ k % 2 = 0) => (err = ErrValue /\ out = NoResult)
              /\ ErrName # ErrValue
    /\ (pc = "done" /\ op = "ParsePolicy" /\ err = Nil) =>
          TreePairsValid(baseOn, policy)

\* ParseClause has returned two pairs of two different lattices.
C19_Witness ==
    /\ pc = "done" /\ op = "ParseClause" /\ err = Nil
    /\ Len(tokens) = 4 /\ Len(out) = 2
    /\ out[1].name # out[2].name

\* C20: whenever ParsePolicy returns an error, the receiver's Mode, Clause
\* and Excepts are what they were before the call.
C20_NoPartialPolicy ==
    [][(op' = "ParsePolicy" /\ err' # Nil) => policy' = policy]_vars

\* ParsePolicy has returned an error from inside an EXCEPT block, after
\* the clause of the root was parsed, on a receiver that held the policy
\* of the tests, and the receiver still holds it.
C20_Witness ==
    /\ pc = "done" /\ op = "ParsePolicy"
    /\ err \in {ErrName, ErrValue, ErrBrace, ErrMode}
    /\ Len(tokens) > 4 /\ tokens[1] = DenyToken /\ tokens[4] = Except
    /\ policy = ExamplePolicy


---------------------------------------------------------------------------
(* A Policy object in use: NewPolicy, then ParsePolicy, ParseClause,       *)
(* ParseAnnotation and ApplyOn calls in any order, each on the text the    *)
(* caller hands over and, for ApplyOn, on an annotation an earlier         *)
(* ParseAnnotation returned.                                               *)

\* The texts the caller hands to the Parse methods, as scanned tokens.
SessionTexts ==
    { Unparse(ExamplePolicy),
      <<DenyToken, "DataType", "IPAddress">>,
      <<DenyToken, "Purpose", "Sharing", Except, lefBrace,
        AllowToken, "Purpose", "Sharing", rightBrace>>,
      <<AllowToken, Except, lefBrace, DenyToken, "DataType", "IPAddress",
        DenyToken, "Purpose", "Sharing", rightBrace>>,
      <<AllowToken, "DataType", "TOP", Except, lefBrace, AllowToken, rightBrace>>,
      <<DenyToken, "DataType", "Sharing">>,
      <<"DataType", "IPAddress">>,
      <<"DataType", "AccountID", "DataType", "IPAddress">>,
      <<"Purpose", "Sharing">>,
      <<>> }

\* policy := NewPolicy(ls)
InitSession ==
    /\ baseOn \in Registries
    /\ policy = NoPolicy
    /\ refs = NewPolicyRefs
    /\ lastOk = NoResult
    /\ tokens \in SessionTexts
    /\ err = NoResult /\ out = NoResult
    /\ an = <<>> /\ result = FALSE /\ pc = "idle"
    /\ lattice = DataType
    /\ op = "none" /\ a = NoResult /\ b = NoResult
    /\ nodea = <<>> /\ nodeb = <<>> /\ res = <<>> /\ chb = <<>>
    /\ iter = 0 /\ ret = NoResult
    /\ edgeMap = <<>> /\ policyAttrs = <<>> /\ annotationAttrs = <<>>
    /\ state = NilState /\ th = <<>>

\* The caller goes on to its next call with another text.  After
\* an, err := policy.ParseAnnotation(c.astr) its annotation is the one
\* returned: the parsed pairs, or the nil Annotation (no pairs) that comes
\* with an error, which does not stop the caller.  A panic is not
\* recovered: it unwinds the caller, which runs no further statement.
NextStatement ==
    /\ pc = "done" /\ err # Panic
    /\ pc' = "idle"
    /\ tokens' \in SessionTexts
    /\ an' = (IF op = "ParseAnnotation"
              THEN (IF err = Nil THEN out ELSE <<>>)
              ELSE an)
    /\ UNCHANGED <<baseOn, policy, result>>
    /\ UNCHANGED <<lattice, op, a, b, nodea, nodeb, res, chb, iter, ret>>
    /\ UNCHANGED <<edgeMap, policyAttrs, annotationAttrs, err, out>>
    /\ UNCHANGED extVars

NextSession ==
    \/ ParsePolicyCall
    \/ ParseClauseCall
    \/ ParseAnnotationCall
    \/ ApplyOnCall
    \/ NextStatement

SpecSession == InitSession /\ [][NextSession]_vars

---------------------------------------------------------------------------
(* Properties of a Policy object in use                                    *)

\* The baseOn fields found in a tree of baseOn fields.
RECURSIVE AllRefs(_)
AllRefs(r) ==
    {r.baseOn} \cup UNION {AllRefs(r.Excepts[i]) : i \in 1..Len(r.Excepts)}

\* The shape of a tree: the number of children, node by node.
RECURSIVE Shape(_)
Shape(t) == [i \in 1..Len(t.Excepts) |-> Shape(t.Excepts[i])]

\* C21: after NewPolicy and any sequence of ParsePolicy, ParseClause,
\* ParseAnnotation and ApplyOn calls, the baseOn of every node of the policy
\* tree, root and all Excepts descendants, is the registry NewPolicy set,
\* and no call changes the registry's lattices, names or edge lists.
C21_OneRegistry ==
    /\ [](/\ Shape(refs) = Shape(policy)
          /\ AllRefs(refs) = {RegistryRef}
          /\ {baseOn[i].Name : i \in 1..Len(baseOn)} = {"DataType", "Purpose"}
          /\ \A i \in 1..Len(baseOn) :
                baseOn[i] = (IF baseOn[i].Name = "DataType" THEN DataType ELSE Purpose))
    /\ [][baseOn' = baseOn]_vars

\* A tree with two Excepts children has been parsed into the policy and
\* ApplyOn has been called on it since.
C21_Witness ==
    /\ Len(policy.Excepts) = 2 /\ Len(refs.Excepts) = 2
    /\ pc = "done" /\ result = TRUE
    /\ an # <<>>

\* C26: after any sequence of ParsePolicy calls on one Policy object its
\* Mode, Clause and Excepts are those a fresh Policy over the same registry
\* gets from the text of the last call that returned nil, and those of
\* NewPolicy when no call has returned nil.
C26_ParseReplaces ==
    policy = (IF lastOk = NoResult THEN NoPolicy
              ELSE Assign(NoPolicy, parsePolicyTokens(baseOn, lastOk).policy))

\* A ParsePolicy call has just returned nil and left a tree of two children
\* and no clause, on a Policy object an ApplyOn had returned true for.
C26_Witness ==
    /\ pc = "done" /\ op = "ParsePolicy" /\ err = Nil
    /\ tokens = lastOk
    /\ policy.Clause = <<>> /\ Len(policy.Excepts) = 2
    /\ result = TRUE

---------------------------------------------------------------------------
(* Concurrent evaluation: goroutines calling Meet, Join, Precede, Allow,   *)
(* overlap, Deny and ApplyOn on the same lattice, registry, policy and     *)
(* annotation, after construction and parsing.  Each goroutine has its own *)
(* locals (th[t]); a step is one iteration of the outermost loop of the    *)
(* method it runs, reading the shared structures as they are at that step. *)

\* Number of goroutines.
MaxGo == 2

Goroutines == 1..MaxGo

\* The arguments the goroutines pass to Meet, Join and Precede.
GoElems == {"AccountID", "IPAddress", "UniqueID", Bottom}

\* The attribute lists the goroutines pass to Allow, overlap and Deny.
GoPattrs == {<<"IPAddress", "AccountID">>, <<Top>>}
GoAattrs == {<<>>, <<"IPAddress">>, <<"Location", "AccountID">>}

GoCalls ==
    [op : {"Meet", "Join", "Precede"}, x : GoElems, y : GoElems]
    \cup [op : {"Allow", "overlap", "Deny"}, x : GoPattrs, y : GoAattrs]
    \cup [op : {"ApplyOn"}, x : {NoResult}, y : {NoResult}]

\* A goroutine that has not made its call.
GoIdle ==
    [op |-> "none", x |-> NoResult, y |-> NoResult,
     nodea |-> <<>>, nodeb |-> <<>>, res |-> <<>>, chb |-> <<>>,
     i |-> 0, acc |-> <<>>, pc |-> "idle", ret |-> NoResult]

\* The locals at the entry of the method: nodea := []string{a}, nodeb :=
\* []string{b}, res := make([]string, 0) in Meet and Join, chb :=
\* []string{b} in Precede, res := make([]string, 0) in overlap.
GoStart(c) ==
    [GoIdle EXCEPT !.op = c.op, !.x = c.x, !.y = c.y,
                   !.nodea = IF c.op \in {"Meet", "Join"} THEN <<c.x>> ELSE <<>>,
                   !.nodeb = IF c.op \in {"Meet", "Join"} THEN <<c.y>> ELSE <<>>,
                   !.chb = IF c.op = "Precede" THEN <<c.y>> ELSE <<>>,
                   !.i = 1, !.pc = "loop"]

\* One iteration of the loop of Meet (widen by childrenOf) or of Join
\* (widen by parentsOf) on the locals g.
GoMeetJoin(l, g) ==
    LET r == Intersect(g.nodea, g.nodeb)
    IN  IF Len(r) = 1
        THEN [g EXCEPT !.res = r, !.pc = "done", !.ret = r[1]]
        ELSE [g EXCEPT !.res = r,
                       !.nodea = g.nodeb,
                       !.nodeb = g.nodea \o (IF g.op = "Meet"
                                             THEN childrenOf(l, g.nodea)
                                             ELSE parentsOf(l, g.nodea)),
                       !.i = g.i + 1]

\* One iteration of the loop of Precede.
GoPrecede(l, g) ==
    IF Len(g.chb) = 1 /\ g.chb[1] = Bottom
    THEN [g EXCEPT !.pc = "done", !.ret = FALSE]
    ELSE IF contains(g.chb, g.x)
    THEN [g EXCEPT !.pc = "done", !.ret = TRUE]
    ELSE [g EXCEPT !.chb = childrenOf(l, g.chb), !.i = g.i + 1]

\* One iteration of the outer loop of Allow, over the annotation attributes.
GoAllow(l, g) ==
    IF g.i > Len(g.y) THEN [g EXCEPT !.pc = "done", !.ret = TRUE]
    ELSE IF ~AllowedBy(l, g.x, g.y[g.i]) THEN [g EXCEPT !.pc = "done", !.ret = FALSE]
    ELSE [g EXCEPT !.i = g.i + 1]

\* One iteration of the outer loop of overlap, over the policy attributes;
\* Deny then looks for BOTTOM in what overlap returned.
GoOverlap(l, g) ==
    LET r == IF Len(g.y) = 0 THEN <<>> ELSE g.acc
    IN  IF Len(g.y) = 0 \/ g.i > Len(g.x)
        THEN [g EXCEPT !.pc = "done",
                       !.ret = IF g.op = "overlap" THEN r
                               ELSE ~\E k \in 1..Len(r) : r[k] = Bottom]
        ELSE [g EXCEPT !.acc = Append(g.acc, OverlapFold(l, g.x[g.i], g.y, 1, "")),
                       !.i = g.i + 1]

\* ApplyOn in two steps: the loop over baseOn that can return at once,
\* then the loop over Excepts.
GoApplyOn(reg, p, ann, g) ==
    IF g.i = 1
    THEN IF p.Mode /\ ~AllowLoop(reg, 1, p.Clause, ann)
         THEN [g EXCEPT !.pc = "done", !.ret = FALSE]
         ELSE IF ~p.Mode /\ DenyLoop(reg, 1, p.Clause, ann)
         THEN [g EXCEPT !.pc = "done", !.ret = TRUE]
         ELSE [g EXCEPT !.i = 2]
    ELSE [g EXCEPT !.pc = "done",
                   !.ret = IF p.Mode
                           THEN AllowExcepts(reg, p.Excepts, 1, ann)
                           ELSE DenyExcepts(reg, p.Excepts, 1,
                                            OverlapLoop(reg, 1, p.Clause, ann))]

GoStep(l, reg, p, ann, g) ==
    CASE g.op \in {"Meet", "Join"}    -> GoMeetJoin(l, g)
      [] g.op = "Precede"             -> GoPrecede(l, g)
      [] g.op = "Allow"               -> GoAllow(l, g)
      [] g.op \in {"overlap", "Deny"} -> GoOverlap(l, g)
      [] g.op = "ApplyOn"             -> GoApplyOn(reg, p, ann, g)

\* The policies and annotations the goroutines share.
GoPolicies ==
    {ExamplePolicy,
     [Mode |-> DENY, Clause |-> <<Pair("DataType", "UniqueID")>>,
      Excepts |-> << [Mode |-> ALLOW, Clause |-> <<Pair("DataType", "IPAddress")>>,
                      Excepts |-> <<>>] >>]}

GoAnnotations ==
    {<<Pair("DataType", "IPAddress")>>,
     <<Pair("DataType", "IPAddress"), Pair("DataType", "AccountID")>>}

InitGo ==
    /\ lattice = DataType
    /\ baseOn \in Registries
    /\ policy \in GoPolicies
    /\ an \in GoAnnotations
    /\ th = [t \in Goroutines |-> GoIdle]
    /\ result = NoResult /\ pc = "idle"
    /\ op = "none" /\ a = NoResult /\ b = NoResult
    /\ nodea = <<>> /\ nodeb = <<>> /\ res = <<>> /\ chb = <<>>
    /\ iter = 0 /\ ret = NoResult
    /\ NoCall
    /\ refs = NoResult /\ lastOk = NoResult /\ state = NilState

\* Goroutine t enters a method.
GoCall(t) ==
    /\ th[t].pc = "idle"
    /\ \E c \in GoCalls : th' = [th EXCEPT ![t] = GoStart(c)]
    /\ UNCHANGED algebraVars
    /\ UNCHANGED policyVars
    /\ UNCHANGED callVars
    /\ UNCHANGED <<refs, lastOk, state>>

\* GoIter with a childrenOf that filters l.Edges in place: the edges that
\* leave the frontier are moved to the front of the shared slice.
GoIterInPlace(t) ==
    /\ th[t].pc = "loop"
    /\ th[t].i <= MaxWiden
    /\ th' = [th EXCEPT ![t] = GoStep(lattice, baseOn, policy, an, th[t])]
    /\ LET m == SelectSeq(lattice.Edges,
                          LAMBDA e : contains(th[t].nodea \o th[t].chb, e.From))
       IN  lattice' = [lattice EXCEPT !.Edges =
                          [k \in 1..Len(lattice.Edges) |->
                              IF k <= Len(m) THEN m[k] ELSE lattice.Edges[k]]]
    /\ UNCHANGED <<op, a, b, nodea, nodeb, res, chb, iter, pc, ret>>
    /\ UNCHANGED policyVars
    /\ UNCHANGED callVars
    /\ UNCHANGED <<refs, lastOk, state>>

\* Goroutine t runs one iteration of the method it is in.
GoIter(t) ==
    /\ th[t].pc = "loop"
    /\ th[t].i <= MaxWiden
    /\ th' = [th EXCEPT ![t] = GoStep(lattice, baseOn, policy, an, th[t])]
    /\ UNCHANGED algebraVars
    /\ UNCHANGED policyVars
    /\ UNCHANGED callVars
    /\ UNCHANGED <<refs, lastOk, state>>

NextGo == \E t \in Goroutines : GoCall(t) \/ GoIter(t)

SpecGo == InitGo /\ [][NextGo]_vars

---------------------------------------------------------------------------
(* Properties of concurrent evaluation                                     *)

\* What the call of goroutine locals g returns when it runs alone.
Alone(l, reg, p, ann, g) ==
    CASE g.op = "Meet"    -> Meet(l, g.x, g.y)
      [] g.op = "Join"    -> Join(l, g.x, g.y)
      [] g.op = "Precede" -> Precede(l, g.x, g.y)
      [] g.op = "Allow"   -> Allow(l, g.x, g.y)
      [] g.op = "overlap" -> overlap(l, g.x, g.y)
      [] g.op = "Deny"    -> Deny(l, g.x, g.y)
      [] g.op = "ApplyOn" -> ApplyOn(reg, p, ann)

\* C22: no step of Meet, Join, Precede, Allow, overlap, Deny or ApplyOn
\* changes the lattice edges, the registry, the policy tree or the
\* annotation, and under every interleaving of the goroutines each call
\* returns what it returns when run alone.
C22_NoSharedWrites ==
    /\ [][/\ lattice' = lattice /\ baseOn' = baseOn
          /\ policy' = policy /\ an' = an]_vars
    /\ [](\A t \in Goroutines :
             th[t].pc = "done" =>
                th[t].ret = Alone(DataType, baseOn, policy, an, th[t]))

\* Both goroutines have returned, one from a Meet that widened its
\* frontiers and one from an ApplyOn that went through the Excepts.
C22_Witness ==
    /\ th[1].pc = "done" /\ th[1].op = "Meet" /\ th[1].i > 1
    /\ th[2].pc = "done" /\ th[2].op = "ApplyOn" /\ th[2].i = 2

---------------------------------------------------------------------------
(* Product: a second lattice attached to a lattice as its state, and the   *)
(* Meet and Join of lattice.go called with product values first:second.    *)

\* {"UniqueID": ["AccountID", "IPAddress"], "Birthday": [], "Location": ["IPAddress"]}
TestDataTypeMap ==
    <<[from |-> "Birthday", tos |-> <<>>],
      [from |-> "Location", tos |-> <<"IPAddress">>],
      [from |-> "UniqueID", tos |-> <<"AccountID", "IPAddress">>]>>

\* {"Encrypted": [], "Hashed": [], "Truncated": ["Redacted"]}
TypeStateMap ==
    <<[from |-> "Encrypted", tos |-> <<>>],
      [from |-> "Hashed", tos |-> <<>>],
      [from |-> "Truncated", tos |-> <<"Redacted">>]>>

TestDataType == parse("DataType", TestDataTypeMap)
TypeState == parse("TypeState", TypeStateMap)

\* The texts first:second over the elements of the two lattices, each with
\* its two halves.
ProductTexts ==
    { <<"TOP:TOP", "TOP", "TOP">>, <<"TOP:Encrypted", "TOP", "Encrypted">>, <<"TOP:Hashed", "TOP", "Hashed">>,
      <<"TOP:Truncated", "TOP", "Truncated">>, <<"TOP:Redacted", "TOP", "Redacted">>, <<"TOP:BOTTOM", "TOP", "BOTTOM">>,
      <<"UniqueID:TOP", "UniqueID", "TOP">>, <<"UniqueID:Encrypted", "UniqueID", "Encrypted">>, <<"UniqueID:Hashed", "UniqueID", "Hashed">>,
      <<"UniqueID:Truncated", "UniqueID", "Truncated">>, <<"UniqueID:Redacted", "UniqueID", "Redacted">>, <<"UniqueID:BOTTOM", "UniqueID", "BOTTOM">>,
      <<"AccountID:TOP", "AccountID", "TOP">>, <<"AccountID:Encrypted", "AccountID", "Encrypted">>, <<"AccountID:Hashed", "AccountID", "Hashed">>,
      <<"AccountID:Truncated", "AccountID", "Truncated">>, <<"AccountID:Redacted", "AccountID", "Redacted">>, <<"AccountID:BOTTOM", "AccountID", "BOTTOM">>,
      <<"IPAddress:TOP", "IPAddress", "TOP">>, <<"IPAddress:Encrypted", "IPAddress", "Encrypted">>, <<"IPAddress:Hashed", "IPAddress", "Hashed">>,
      <<"IPAddress:Truncated", "IPAddress", "Truncated">>, <<"IPAddress:Redacted", "IPAddress", "Redacted">>, <<"IPAddress:BOTTOM", "IPAddress", "BOTTOM">>,
      <<"Birthday:TOP", "Birthday", "TOP">>, <<"Birthday:Encrypted", "Birthday", "Encrypted">>, <<"Birthday:Hashed", "Birthday", "Hashed">>,
      <<"Birthday:Truncated", "Birthday", "Truncated">>, <<"Birthday:Redacted", "Birthday", "Redacted">>, <<"Birthday:BOTTOM", "Birthday", "BOTTOM">>,
      <<"Location:TOP", "Location", "TOP">>, <<"Location:Encrypted", "Location", "Encrypted">>, <<"Location:Hashed", "Location", "Hashed">>,
      <<"Location:Truncated", "Location", "Truncated">>, <<"Location:Redacted", "Location", "Redacted">>, <<"Location:BOTTOM", "Location", "BOTTOM">>,
      <<"BOTTOM:TOP", "BOTTOM", "TOP">>, <<"BOTTOM:Encrypted", "BOTTOM", "Encrypted">>, <<"BOTTOM:Hashed", "BOTTOM", "Hashed">>,
      <<"BOTTOM:Truncated", "BOTTOM", "Truncated">>, <<"BOTTOM:Redacted", "BOTTOM", "Redacted">>, <<"BOTTOM:BOTTOM", "BOTTOM", "BOTTOM">> }

\* The values handed to Meet and Join: every element of the receiver, bare,
\* and every text first:second.
ProductValues == Elements(TestDataType) \cup {t[1] : t \in ProductTexts}

\* var lattice = NewLattice(...)
InitProduct ==
    /\ lattice = TestDataType
    /\ state = NilState
    /\ op = "none" /\ a = NoResult /\ b = NoResult
    /\ nodea = <<>> /\ nodeb = <<>> /\ res = <<>> /\ chb = <<>>
    /\ iter = 0 /\ pc = "idle" /\ ret = NoResult
    /\ baseOn = <<>> /\ policy = NoPolicy /\ an = <<>> /\ result = NoResult
    /\ NoCall
    /\ refs = NoResult /\ lastOk = NoResult /\ th = <<>>

\* lattice.Product(state)
Product ==
    /\ pc = "idle" /\ state = NilState
    /\ state' = TypeState
    /\ UNCHANGED algebraVars
    /\ UNCHANGED policyVars
    /\ UNCHANGED callVars
    /\ UNCHANGED <<refs, lastOk, th>>

\* lattice.Meet(a, b) once the state lattice is attached: the operand
\* texts are the two first frontiers as they are;
\* nodea := []string{a}; nodeb := []string{b}; res := make([]string, 0).
\* The loop is MeetIter.
ProductMeetCall ==
    /\ pc = "idle" /\ state # NilState
    /\ \E x, y \in ProductValues :
          /\ op' = "Meet" /\ a' = x /\ b' = y
          /\ nodea' = <<x>> /\ nodeb' = <<y>>
    /\ res' = <<>> /\ iter' = 0 /\ pc' = "loop"
    /\ UNCHANGED <<lattice, chb, ret>>
    /\ UNCHANGED policyVars
    /\ UNCHANGED callVars
    /\ UNCHANGED extVars

\* lattice.Join(a, b) once the state lattice is attached.  The loop is
\* JoinIter.
ProductJoinCall ==
    /\ pc = "idle" /\ state # NilState
    /\ \E x, y \in ProductValues :
          /\ op' = "Join" /\ a' = x /\ b' = y
          /\ nodea' = <<x>> /\ nodeb' = <<y>>
    /\ res' = <<>> /\ iter' = 0 /\ pc' = "loop"
    /\ UNCHANGED <<lattice, chb, ret>>
    /\ UNCHANGED policyVars
    /\ UNCHANGED callVars
    /\ UNCHANGED extVars

NextProduct ==
    \/ Product
    \/ ProductMeetCall \/ MeetIter
    \/ ProductJoinCall \/ JoinIter

SpecProduct == InitProduct /\ [][NextProduct]_vars

---------------------------------------------------------------------------
(* Properties of Product                                                   *)

IsProduct(v) == \E t \in ProductTexts : t[1] = v

\* The halves of a value; a value without second half has the TOP of the
\* state lattice for it.
FirstHalf(v) == IF IsProduct(v) THEN (CHOOSE t \in ProductTexts : t[1] = v)[2] ELSE v
SecondHalf(v) == IF IsProduct(v) THEN (CHOOSE t \in ProductTexts : t[1] = v)[3] ELSE Top

\* first:second, or bare first when second is the TOP of the state lattice.
Recombine(first, second) ==
    IF second = Top THEN first
    ELSE (CHOOSE t \in ProductTexts : t[2] = first /\ t[3] = second)[1]

\* What a widening adds to a frontier.
Widened(nodes) ==
    IF op = "Meet" THEN childrenOf(lattice, nodes) ELSE parentsOf(lattice, nodes)

\* A call in its loop that will not return: no widening adds an element to
\* either frontier and the frontiers share none, so every later
\* intersection is empty (StuckStaysStuck).
Stuck ==
    /\ pc = "loop" /\ op \in {"Meet", "Join"}
    /\ Range(Widened(nodea)) \subseteq Range(nodea)
    /\ Range(Widened(nodeb)) \subseteq Range(nodeb)
    /\ Common = {}

\* A stuck call stays stuck, so it never reaches its return statement: an
\* iteration swaps the frontiers, adds no element to either and finds no
\* common one.
StuckStaysStuck ==
    [][Stuck => /\ pc' = "loop"
                /\ Range(nodea') = Range(nodeb)
                /\ Range(nodeb') = Range(nodea)
                /\ Range(Intersect(nodea', nodeb')) = {}]_vars

\* C23: with a state lattice attached, Meet and Join of operands of which
\* one at least is first:second return, and return the Meet (Join) of the
\* first halves in the receiver and the Meet (Join) of the second halves in
\* the state lattice, a missing half counting as TOP, recombined as
\* first:second, or as bare first when the second is TOP:
\* Meet(AccountID:Truncated, UniqueID) = AccountID:Truncated,
\* Meet(AccountID:Truncated, UniqueID:Redacted) = AccountID:Redacted,
\* Join(AccountID:Truncated, UniqueID:Redacted) = UniqueID:Truncated.  No
\* such call is in a state from which it cannot return, and one that has
\* returned has returned the recombination.
C23_ProductComponentwise ==
    (state # NilState /\ (IsProduct(a) \/ IsProduct(b))) =>
        LET half(l, x, y) == IF op = "Meet" THEN Meet(l, x, y) ELSE Join(l, x, y)
            f == half(lattice, FirstHalf(a), FirstHalf(b))
            g == half(state, SecondHalf(a), SecondHalf(b))
        IN  /\ ~Stuck
            /\ (pc = "done" /\ f # NoResult /\ g # NoResult) => ret = Recombine(f, g)
            /\ (pc = "done" /\ op = "Meet" /\ a = "AccountID:Truncated"
                  /\ b = "UniqueID")
               => ret = "AccountID:Truncated"
            /\ (pc = "done" /\ op = "Meet" /\ a = "AccountID:Truncated"
                  /\ b = "UniqueID:Redacted")
               => ret = "AccountID:Redacted"
            /\ (pc = "done" /\ op = "Join" /\ a = "AccountID:Truncated"
                  /\ b = "UniqueID:Redacted")
               => ret = "UniqueID:Truncated"

---------------------------------------------------------------------------
(* Further properties of ApplyOn                                           *)

\* The loop over Excepts of the root is reached: the loop over baseOn has
\* not returned.
ExceptsReached ==
    /\ pc = "done" /\ Len(policy.Excepts) > 0
    /\ IF policy.Mode THEN AllowLoop(baseOn, 1, policy.Clause, an)
       ELSE ~DenyLoop(baseOn, 1, policy.Clause, an)

\* {"AccountID": ["IPAddress"], "IPAddress": ["Location"], "UniqueID": []}
ChainDataType == parse("DataType", ChainMap)

\* The two range orders of a registry that holds the chain lattice and
\* Purpose.
ChainRegistries == {<<ChainDataType, Purpose>>, <<Purpose, ChainDataType>>}

ChainPairs == {Pair("DataType", v) : v \in Elements(ChainDataType)}

\* Roots of either mode with at most one clause pair and at most one child
\* of the opposite mode with one clause pair.
ChainPolicies ==
    [Mode : {ALLOW, DENY},
     Clause : SeqsUpTo(ChainPairs, 1),
     Excepts : {<<>>}]
    \cup { [Mode |-> m, Clause |-> c,
            Excepts |-> <<[Mode |-> ~m, Clause |-> d, Excepts |-> <<>>]>>] :
           m \in {ALLOW, DENY}, c \in SeqsUpTo(ChainPairs, 1),
           d \in [1..1 -> ChainPairs] }

\* Every Meet and Join that ApplyOn(p, ann) and the overlap of ann with the
\* clauses of p can call returns.
RECURSIVE Returns(_, _, _)
Returns(reg, p, ann) ==
    /\ \A i \in 1..Len(reg) :
          LET cs == ValuesOf(p.Clause, reg[i].Name)
              xs == ValuesOf(ann, reg[i].Name)
          IN  /\ NoResult \notin Range(overlap(reg[i], cs, xs))
              /\ NoResult \notin Range(overlap(reg[i], xs, cs))
    /\ \A k \in 1..Len(p.Excepts) :
          /\ Returns(reg, p.Excepts[k], ann)
          /\ Returns(reg, p.Excepts[k], OverlapLoop(reg, 1, p.Clause, ann))

InitChain ==
    /\ baseOn \in ChainRegistries
    /\ policy \in ChainPolicies
    /\ an \in SeqsUpTo(ChainPairs, MaxAnn)
    /\ Returns(baseOn, policy, an)
    /\ result = FALSE /\ pc = "idle"
    /\ lattice = ChainDataType
    /\ op = "none" /\ a = NoResult /\ b = NoResult
    /\ nodea = <<>> /\ nodeb = <<>> /\ res = <<>> /\ chb = <<>>
    /\ iter = 0 /\ ret = NoResult
    /\ NoCall
    /\ NoExt

SpecChain == InitChain /\ [][NextApply]_vars

\* C24: whenever the Excepts of a node are evaluated, under an ALLOW
\* parent as under a DENY parent, the annotation handed to each child is
\* the overlap of the incoming annotation with the parent's clause (for
\* every lattice of the registry, one value per annotation value: the join
\* over the clause's values of its meet with them), not the incoming
\* annotation, and the parent returns what the children return on that
\* overlap (all of them under ALLOW, one of them under DENY).
C24_ExceptsGetOverlap ==
    ExceptsReached =>
        LET ov == DerivedAnnotation(baseOn, policy.Clause, an)
            n  == Len(policy.Excepts)
        IN  /\ \A k \in 1..Len(baseOn) :
                  ValuesOf(PassedToExcepts(baseOn, policy, an), baseOn[k].Name)
                     = ValuesOf(ov, baseOn[k].Name)
            /\ result = IF policy.Mode
                        THEN \A i \in 1..n : ApplyOn(baseOn, policy.Excepts[i], ov)
                        ELSE \E i \in 1..n : ApplyOn(baseOn, policy.Excepts[i], ov)

---------------------------------------------------------------------------
(* ApplyOn and the order of range over baseOn.  Every range statement over *)
(* the map picks its own order: r1 is the order of the first loop of a     *)
(* node, r2 the order of the loop that builds the overlap, and the         *)
(* children run with the three orders rotated.                             *)

RECURSIVE ApplyOnRanges(_, _, _, _, _)
ApplyOnRanges(r1, r2, r3, p, ann) ==
    IF p.Mode
    THEN /\ AllowLoop(r1, 1, p.Clause, ann)
         /\ \A i \in 1..Len(p.Excepts) :
               ApplyOnRanges(r3, r1, r2, p.Excepts[i], ann)
    ELSE \/ DenyLoop(r1, 1, p.Clause, ann)
         \/ \E i \in 1..Len(p.Excepts) :
               ApplyOnRanges(r3, r1, r2, p.Excepts[i],
                             OverlapLoop(r2, 1, p.Clause, ann))

\* Clauses with a pair for each lattice of the registry, in both orders.
OrderClauses(ds, qs) ==
    UNION { { <<Pair("DataType", d), Pair("Purpose", q)>>,
              <<Pair("Purpose", q), Pair("DataType", d)>> } :
            <<d, q>> \in ds \X qs }

\* Policies whose root names both lattices: with one child of one pair,
\* and with a child naming both lattices that has a child of its own.
OrderPolicies(m) ==
    [Mode : {m},
     Clause : OrderClauses({Top, "UniqueID", "IPAddress"}, Elements(Purpose)),
     Excepts : [1..1 -> Leaves(~m, 1)]]
    \cup
    [Mode : {m},
     Clause : OrderClauses({Top}, {Top}),
     Excepts : [1..1 -> [Mode : {~m},
                         Clause : OrderClauses({"UniqueID", "IPAddress"}, {"Sharing"}),
                         Excepts : [1..1 -> Leaves(m, 1)]]]]

InitOrder ==
    /\ baseOn \in Registries
    /\ policy \in OrderPolicies(ALLOW) \cup OrderPolicies(DENY)
    /\ an \in Annotations
    /\ result = FALSE /\ pc = "idle"
    /\ lattice = DataType
    /\ op = "none" /\ a = NoResult /\ b = NoResult
    /\ nodea = <<>> /\ nodeb = <<>> /\ res = <<>> /\ chb = <<>>
    /\ iter = 0 /\ ret = NoResult
    /\ NoCall
    /\ NoExt

SpecOrder == InitOrder /\ [][NextApply]_vars

\* C25: whatever order each range over baseOn visits the lattices in, at
\* the root and in the children, ApplyOn returns the same boolean.
C25_OrderIndependent ==
    pc = "done" =>
        \A r1, r2, r3 \in Registries :
            ApplyOnRanges(r1, r2, r3, policy, an) = result

\* A DENY root has built an overlap of two pairs whose order follows the
\* order of the range, and its child has returned true on it.
C25_Witness ==
    /\ pc = "done" /\ ~policy.Mode /\ result = TRUE
    /\ ~DenyLoop(baseOn, 1, policy.Clause, an)
    /\ Len(OverlapLoop(baseOn, 1, policy.Clause, an)) = 2
    /\ \E r \in Registries :
          OverlapLoop(r, 1, policy.Clause, an) # OverlapLoop(baseOn, 1, policy.Clause, an)

\* C27: an ALLOW node whose clause has no pair for a lattice of the
\* registry returns false on every annotation that has a value for that
\* lattice, whatever its other pairs and its Excepts.
C27_UnmentionedLatticeAllowsNothing ==
    (pc = "done" /\ policy.Mode = ALLOW) =>
        \A k \in 1..Len(baseOn) :
            (/\ ValuesOf(policy.Clause, baseOn[k].Name) = <<>>
             /\ ValuesOf(an, baseOn[k].Name) # <<>>) => result = FALSE

\* An ALLOW node with a pair for DataType and none for Purpose has returned
\* false on an annotation whose DataType value the clause allows and that
\* has a Purpose value too, and true on none of Purpose.
C27_Witness ==
    /\ pc = "done" /\ policy.Mode = ALLOW /\ result = FALSE
    /\ policy.Clause = <<Pair("DataType", Top)>> /\ policy.Excepts = <<>>
    /\ an = <<Pair("DataType", "IPAddress"), Pair("Purpose", "Sharing")>>
    /\ ApplyOn(baseOn, policy, <<Pair("DataType", "IPAddress")>>)

\* C28: Deny(P, []) is true for every P; a DENY node without Excepts
\* returns false on the annotation without values, and so do an ALLOW
\* node one of whose Excepts is such a DENY node and the example policy
\* ALLOW DataType TOP EXCEPT { DENY DataType IPAddress DataType AccountID }.
C28_EmptyAnnotationDenied ==
    (pc = "done" /\ an = <<>>) =>
        /\ \A k \in 1..Len(baseOn) :
              Deny(baseOn[k], ValuesOf(policy.Clause, baseOn[k].Name), <<>>)
        /\ \A r \in Registries : ~ApplyOn(r, ExamplePolicy, <<>>)
        /\ (policy.Mode = DENY /\ policy.Excepts = <<>>) => result = FALSE
        /\ (/\ policy.Mode = ALLOW
            /\ \E i \in 1..Len(policy.Excepts) :
                  /\ policy.Excepts[i].Mode = DENY
                  /\ policy.Excepts[i].Excepts = <<>>) => result = FALSE

\* An ALLOW node with a DENY child that has a clause and no Excepts has
\* returned false on the annotation without values.
C28_Witness ==
    /\ pc = "done" /\ an = <<>> /\ result = FALSE
    /\ policy.Mode = ALLOW /\ Len(policy.Clause) = 1
    /\ Len(policy.Excepts) = 1 /\ Len(policy.Excepts[1].Clause) = 1
=============================================================================
